---------------------------- MODULE Spec2Model ----------------------------
(***************************************************************************)
(* A model of the chain-event notification engine of neutrino-lnd:         *)
(*   - LightWalletNotifier (chainntnfs/lightwalletnotify/lightwallet.go):  *)
(*     Start/Stop, the notificationDispatcher loop, block-epoch            *)
(*     registration with its proxy goroutine and Cancel closure, and the   *)
(*     historical confirmation resolver task;                              *)
(*   - LWFilteredChainView (routing/chainview): its Start/Stop lifecycle.  *)
(*                                                                         *)
(* Goroutines are modelled by program counters.  A channel rendezvous on   *)
(* an unbuffered channel is one action of both parties.  A select that has *)
(* several ready cases is a nondeterministic choice between them.  A party *)
(* whose select includes the closed quit channel never parks, so an        *)
(* unbuffered rendezvous whose two parties both select on quit cannot      *)
(* happen once quit is closed (the Go runtime completes a rendezvous only  *)
(* with a parked peer).                                                    *)
(***************************************************************************)
EXTENDS Integers, Sequences, FiniteSets, TLC

(***************************************************************************)
(* Bounds of the model.                                                    *)
(***************************************************************************)
MaxHeight == 3
MaxClients == 1
MaxCalls == 2
MaxNtfns == 1
MaxEvents == 2
MaxConfs == 1
MaxSpends == 1
MaxOutpoints == 1
MaxUpdates == 2
MaxBlockEvents == 2
MaxFilterCalls == 1
MaxLookups == 1
MaxIds == 2
MaxTips == 2
\* capacity of a registration's delivery channel (20 in the source, scaled)
EpochChanCap == 2

Heights == 0..MaxHeight
Variants == {1, 2}
Clients == 1..MaxClients
Confs == 1..MaxConfs
Spends == 1..MaxSpends
Outpoints == 1..MaxOutpoints

VARIABLES
    \* ---- LightWalletNotifier lifecycle
    started,        \* b.started (atomic counter)
    stopped,        \* b.stopped (atomic counter)
    startPc,        \* the first Start call: "idle", "init", "done", "failed"
    stopPc,         \* the first Stop call: "idle", "wait", "clients", "returned"
    stopCur,        \* the client Stop's loop is tearing down: <<>> or <<c>>
    stopDone,       \* the clients Stop's loop has finished with
    quitCloses,     \* number of close(b.quit) executed
    dispPc,         \* dispatcher goroutine: "none", "select", "notify", "exited",
                    \* "rpc" (inside a backend call that has not returned)
    dispLaunches,   \* number of `go b.notificationDispatcher()` executed
    dispClient,     \* the registration the dispatcher is serving: <<>> or <<c>>
    dispPending,    \* epochs the registration handler still has to notify
    dispErr,        \* the value the handler will send on msg.errorChan
    mtxLog,         \* the accesses to b.bestBlock made so far:
                    \* <<function, "read" or "write", bestBlockMtx held>>
    hbcCalls,       \* handleBlockConnected calls: <<block, backend answer,
                    \* the calls and assignments made, in order>>
    txNotifier,     \* b.txNotifier # nil
    tornDown,       \* b.txNotifier.TearDown() has run
    liveAtReturn,   \* goroutines that had not exited when Stop returned
    crashed,        \* an unrecovered panic ended the process
    bestBlock,      \* b.bestBlock: <<height, hash>>
    trackerHeight,  \* the height the tracker was last told about
    \* ---- the backend collaborator
    chain,          \* chain[h] is the hash variant of the block at height h
    ntfns,          \* chainConn.Notifications(): pending backend notifications
    nEvents,        \* number of backend events so far
    connectedSeen,  \* the BlockConnected notifications the dispatcher consumed
    \* ---- block-epoch registrations, indexed by epochID
    epochClientCounter,
    confClientCounter,
    issued,         \* the identifiers taken from the three counters, in the
                    \* order taken: <<"epochID" / "confID" / "spendID", id>>
    regPc,          \* RegisterBlockEpochNtfn: "none", "select", "ok", "err"
    hint,           \* reg.bestBlock: <<>> (nil) or <<height>>
    blockEpochClients, \* the keys of b.blockEpochClients
    acceptedAt,     \* Len(connectedSeen) when the dispatcher accepted it
    proxyPc,        \* proxy goroutine: "none", "idle", "hold", "exited"
    proxyItem,      \* the epoch the proxy took from the queue: <<>> or <<e>>
    epochQueue,     \* reg.epochQueue contents
    epochChan,      \* reg.epochChan buffer
    epochClosed,    \* reg.epochChan is closed
    cancelClosed,   \* reg.cancelChan is closed
    errorChan,      \* reg.errorChan buffer
    enqueued,       \* every epoch the dispatcher put on epochQueue.ChanIn()
    received,       \* every epoch the subscriber read from Epochs
    cancelPc,       \* Cancel closure: "none", "send", "drain", "done"
    cancelVia,      \* how Cancel returned: "", "closed", "quit"
    \* ---- historical confirmation dispatches
    confPc,         \* "none", "send", "scan", "found", "notfound", "error", "rejected"
    confStart,      \* msg.StartHeight
    confEnd,        \* msg.EndHeight
    scanHeight,     \* the resolver's loop variable
    confDetails,    \* the resolver's result: <<>> (nil) or <<height, hash, index>>
    updateCalls,    \* the UpdateConfDetails calls made for the request
    scanLog,        \* the heights the resolver visited: <<height, the
                    \* backend's answer, the backend calls made, <<index>> of
                    \* the matching transaction in the fetched block or <<>>>>
    confErr,        \* the error historicalConfDetails returned: "" (nil),
                    \* "shuttingDown" or "io"
    \* ---- calls of confDetailsManually and confDetailsFromTxIndex
    manPc,          \* a confDetailsManually call: "none", "scan", "done"
    manHint,        \* its heightHint
    manCur,         \* its currentHeight
    manHeight,      \* its loop variable
    manLog,         \* the heights it visited: <<height, the backend's answer,
                    \* the backend calls made, the matching indexes>>
    manResult,      \* what it returned: <<>> or <<details, status, error>>
    txIndexCalls,   \* confDetailsFromTxIndex calls: <<the backend's answers,
                    \* <<details, status, error>>>>
    \* ---- LWFilteredChainView lifecycle
    cvStarted,      \* c.started
    cvStopped,      \* c.stopped
    cvStartPc,      \* the first Start call: "idle", "init", "done", "failed"
    cvStopPc,       \* the first Stop call: "idle", "wait", "returned"
    cvQuitCloses,   \* number of close(c.quit) executed
    cvFilterer,     \* chainFilterer goroutine: "none", "running", "exited"
    cvLaunches,     \* number of `go c.chainFilterer()` executed
    \* ---- spend registrations and the tracker's view of the requests
    spendClientCounter, \* b.spendClientCounter
    spendPc,        \* RegisterSpendNtfn, by spendID: "none", "ok", "invalid"
    spendDispatch,  \* a HistoricalSpendDispatch for the request: "none", "received"
    spendUpdateCalls, \* the UpdateSpendDetails calls made for the request
    trackerReqs,    \* the requests registered with b.txNotifier
    teardownCalls,  \* the registration calls made with b.quit already closed
    \* ---- LWFilteredChainView filter and block events
    chainFilter,    \* the keys of c.chainFilter
    blockQueue,     \* the events handed to c.blockQueue.Add, in order
    cvHeight,       \* height of the backend's tip as the callbacks have seen it
    cvBlocks,       \* the blocks the callbacks were called with, in order
    cvUpdates,      \* the filter updates chainFilterer has received
    cvUpdateRet,    \* what the last UpdateFilter call returned
    fbCalls,        \* FilterBlock calls: <<hash, lookup, backend queries, result>>
    fbBlocks,       \* per FilterBlock call: <<the block's transactions on the
                    \* backend, the outpoints UpdateFilter was given so far>>
    cvObserved      \* what the consumer read: <<"newBlocks" or "staleBlocks",
                    \* the FilteredBlock>>, in order

lifeVars == <<started, stopped, startPc, stopPc, stopCur, stopDone, quitCloses,
              txNotifier, tornDown, liveAtReturn, crashed, bestBlock,
              trackerHeight>>
dispVars == <<dispPc, dispLaunches, dispClient, dispPending, dispErr, mtxLog,
              hbcCalls>>
backendVars == <<chain, ntfns, nEvents, connectedSeen>>
idVars == <<confClientCounter, issued>>
regVars == <<epochClientCounter, regPc, hint, blockEpochClients, acceptedAt,
             idVars>>
pipeVars == <<proxyPc, proxyItem, epochQueue, epochChan, epochClosed,
              cancelClosed, errorChan, enqueued, received>>
cancelVars == <<cancelPc, cancelVia>>
confVars == <<confPc, confStart, confEnd, scanHeight, confDetails, updateCalls,
              scanLog, confErr, manPc, manHint, manCur, manHeight, manLog,
              manResult, txIndexCalls>>
lookupVars == <<manPc, manHint, manCur, manHeight, manLog, manResult,
                txIndexCalls>>
viewVars == <<cvStarted, cvStopped, cvStartPc, cvStopPc, cvQuitCloses,
              cvFilterer, cvLaunches>>
spendVars == <<spendClientCounter, spendPc, spendDispatch, spendUpdateCalls,
               trackerReqs, teardownCalls>>
filterVars == <<chainFilter, blockQueue, cvHeight, cvBlocks, cvUpdates,
                cvUpdateRet, fbCalls, fbBlocks, cvObserved>>
vars == <<lifeVars, dispVars, backendVars, regVars, pipeVars, cancelVars,
          confVars, viewVars, spendVars, filterVars>>

(***************************************************************************)
(* Helpers.                                                                *)
(***************************************************************************)
QuitClosed == quitCloses > 0

\* chainConn.GetBlockHash(h): the genesis block has variant 1
HashAt(h) == IF h = 0 THEN 1 ELSE chain[h]
BackendHeight == Len(chain)
Epoch(h) == <<h, HashAt(h)>>

\* the goroutines counted by b.wg: the dispatcher and the resolver tasks
wgCount == (IF dispPc \in {"select", "notify", "rpc"} THEN 1 ELSE 0)
           + Cardinality({r \in Confs : confPc[r] = "scan"})

Init ==
    /\ started = 0 /\ stopped = 0 /\ startPc = "idle" /\ stopPc = "idle"
    /\ stopCur = <<>> /\ stopDone = {} /\ quitCloses = 0
    /\ dispPc = "none" /\ dispLaunches = 0 /\ dispClient = <<>>
    /\ dispPending = <<>> /\ dispErr = "nil" /\ mtxLog = {}
    /\ hbcCalls = <<>>
    /\ txNotifier = FALSE /\ tornDown = FALSE /\ liveAtReturn = {}
    /\ crashed = FALSE
    /\ bestBlock = <<0, 0>> /\ trackerHeight = 0
    /\ chain = <<1>> /\ ntfns = <<>> /\ nEvents = 0 /\ connectedSeen = <<>>
    /\ epochClientCounter = 0 /\ confClientCounter = 0 /\ issued = <<>>
    /\ regPc = [c \in Clients |-> "none"]
    /\ hint = [c \in Clients |-> <<>>]
    /\ blockEpochClients = {}
    /\ acceptedAt = [c \in Clients |-> 0]
    /\ proxyPc = [c \in Clients |-> "none"]
    /\ proxyItem = [c \in Clients |-> <<>>]
    /\ epochQueue = [c \in Clients |-> <<>>]
    /\ epochChan = [c \in Clients |-> <<>>]
    /\ epochClosed = [c \in Clients |-> FALSE]
    /\ cancelClosed = [c \in Clients |-> FALSE]
    /\ errorChan = [c \in Clients |-> <<>>]
    /\ enqueued = [c \in Clients |-> <<>>]
    /\ received = [c \in Clients |-> <<>>]
    /\ cancelPc = [c \in Clients |-> "none"]
    /\ cancelVia = [c \in Clients |-> ""]
    /\ confPc = [r \in Confs |-> "none"]
    /\ confStart = [r \in Confs |-> 0]
    /\ confEnd = [r \in Confs |-> 0]
    /\ scanHeight = [r \in Confs |-> 0]
    /\ confDetails = [r \in Confs |-> <<>>]
    /\ updateCalls = [r \in Confs |-> <<>>]
    /\ scanLog = [r \in Confs |-> <<>>]
    /\ confErr = [r \in Confs |-> ""]
    /\ manPc = "none" /\ manHint = 0 /\ manCur = 0 /\ manHeight = 0 /\ manLog = <<>>
    /\ manResult = <<>> /\ txIndexCalls = <<>>
    /\ cvStarted = 0 /\ cvStopped = 0 /\ cvStartPc = "idle" /\ cvStopPc = "idle"
    /\ cvQuitCloses = 0 /\ cvFilterer = "none" /\ cvLaunches = 0
    /\ spendClientCounter = 0
    /\ spendPc = [s \in Spends |-> "none"]
    /\ spendDispatch = [s \in Spends |-> "none"]
    /\ spendUpdateCalls = [s \in Spends |-> <<>>]
    /\ trackerReqs = {}
    /\ teardownCalls = {}
    /\ chainFilter = {} /\ blockQueue = <<>> /\ cvHeight = 0 /\ cvBlocks = <<>>
    /\ cvUpdates = <<>> /\ cvUpdateRet = "" /\ fbCalls = <<>>
    /\ fbBlocks = <<>> /\ cvObserved = <<>>

(***************************************************************************)
(* LightWalletNotifier.Start                                               *)
(***************************************************************************)
\* `atomic.AddInt32(&b.started, 1) != 1`, on the counter's new value
AlreadyStartedAlways(n) == FALSE
AlreadyStarted(n) == n # 1

\* The call's first statement.  A call that is not the first returns nil.
Start ==
    /\ ~crashed
    /\ started < MaxCalls
    /\ started' = started + 1
    /\ startPc' = IF AlreadyStarted(started + 1) THEN startPc ELSE "init"
    /\ UNCHANGED <<stopped, stopPc, stopCur, stopDone, quitCloses, txNotifier,
                   tornDown, liveAtReturn, crashed, bestBlock, trackerHeight>>
    /\ UNCHANGED <<dispVars, backendVars, regVars, pipeVars, cancelVars,
                   confVars, viewVars, spendVars, filterVars>>

\* chainConn.Start() or chainConn.GetBestBlock() returns an error
StartFail ==
    /\ ~crashed
    /\ startPc = "init"
    /\ startPc' = "failed"
    /\ UNCHANGED <<started, stopped, stopPc, stopCur, stopDone, quitCloses,
                   txNotifier, tornDown, liveAtReturn, crashed, bestBlock,
                   trackerHeight>>
    /\ UNCHANGED <<dispVars, backendVars, regVars, pipeVars, cancelVars,
                   confVars, viewVars, spendVars, filterVars>>

\* one access to b.bestBlock, with whether b.bestBlockMtx is held around it
BestBlockAccess(fn, kind, held) == <<fn, kind, held>>

\* The rest of a successful first call: the tracker, the best block, and the
\* dispatcher goroutine.
StartInit ==
    /\ ~crashed
    /\ startPc = "init"
    /\ startPc' = "done"
    /\ txNotifier' = TRUE
    /\ trackerHeight' = BackendHeight
    /\ bestBlock' = Epoch(BackendHeight)
    /\ dispPc' = "select"
    /\ dispLaunches' = dispLaunches + 1
    /\ mtxLog' = mtxLog \cup {BestBlockAccess("Start", "write", FALSE)}
    /\ UNCHANGED <<started, stopped, stopPc, stopCur, stopDone, quitCloses,
                   tornDown, liveAtReturn, crashed>>
    /\ UNCHANGED <<dispClient, dispPending, dispErr, hbcCalls>>
    /\ UNCHANGED <<backendVars, regVars, pipeVars, cancelVars, confVars,
                   viewVars, spendVars, filterVars>>

(***************************************************************************)
(* LightWalletNotifier.Stop                                                *)
(***************************************************************************)
\* the goroutines of the notifier that have been spawned and have not exited
LiveGoroutines ==
    {g \in {<<"dispatcher", 0>>} : dispPc \in {"select", "notify", "rpc"}}
    \cup {<<"task", r>> : r \in {x \in Confs : confPc[x] = "scan"}}
    \cup {<<"proxy", c>> : c \in {x \in Clients : proxyPc[x] \in {"idle", "hold"}}}

\* `atomic.AddInt32(&b.stopped, 1) != 1`, on the counter's new value
AlreadyStopped(n) == n # 1

\* The call's first statements: the guard, chainConn.Stop() and close(b.quit).
\* Closing a closed channel panics.
Stop ==
    /\ ~crashed
    /\ stopped < MaxCalls
    /\ stopped' = stopped + 1
    /\ IF AlreadyStopped(stopped + 1)
       THEN UNCHANGED <<stopPc, quitCloses, crashed>>
       ELSE /\ stopPc' = "wait"
            /\ quitCloses' = quitCloses + 1
            /\ crashed' = QuitClosed
    /\ UNCHANGED <<started, startPc, stopCur, stopDone, txNotifier, tornDown,
                   liveAtReturn, bestBlock, trackerHeight>>
    /\ UNCHANGED <<dispVars, backendVars, regVars, pipeVars, cancelVars,
                   confVars, viewVars, spendVars, filterVars>>

\* b.wg.Wait()
StopWait ==
    /\ ~crashed
    /\ stopPc = "wait"
    /\ wgCount = 0
    /\ stopPc' = "clients"
    /\ UNCHANGED <<started, stopped, startPc, stopCur, stopDone, quitCloses,
                   txNotifier, tornDown, liveAtReturn, crashed, bestBlock,
                   trackerHeight>>
    /\ UNCHANGED <<dispVars, backendVars, regVars, pipeVars, cancelVars,
                   confVars, viewVars, spendVars, filterVars>>

\* One iteration of the loop over b.blockEpochClients, first half:
\* close(epochClient.cancelChan).
StopCloseCancel(c) ==
    /\ ~crashed
    /\ stopPc = "clients"
    /\ stopCur = <<>>
    /\ c \in blockEpochClients \ stopDone
    /\ stopCur' = <<c>>
    /\ cancelClosed' = [cancelClosed EXCEPT ![c] = TRUE]
    /\ crashed' = cancelClosed[c]
    /\ UNCHANGED <<started, stopped, startPc, stopPc, stopDone, quitCloses,
                   txNotifier, tornDown, liveAtReturn, bestBlock, trackerHeight>>
    /\ UNCHANGED <<proxyPc, proxyItem, epochQueue, epochChan, epochClosed,
                   errorChan, enqueued, received>>
    /\ UNCHANGED <<dispVars, backendVars, regVars, cancelVars, confVars,
                   viewVars, spendVars, filterVars>>

\* epochClient.wg.Wait() returns: the registration's forwarding goroutine
\* has run its deferred reg.wg.Done()
EpochClientWaitSkipped(c) == TRUE
EpochClientWaited(c) == proxyPc[c] = "exited"

\* Second half: epochClient.wg.Wait() and close(epochClient.epochChan).
StopCloseEpoch(c) ==
    /\ ~crashed
    /\ stopPc = "clients"
    /\ stopCur = <<c>>
    /\ EpochClientWaited(c)
    /\ stopCur' = <<>>
    /\ stopDone' = stopDone \cup {c}
    /\ epochClosed' = [epochClosed EXCEPT ![c] = TRUE]
    /\ crashed' = epochClosed[c]
    /\ UNCHANGED <<started, stopped, startPc, stopPc, quitCloses, txNotifier,
                   tornDown, liveAtReturn, bestBlock, trackerHeight>>
    /\ UNCHANGED <<proxyPc, proxyItem, epochQueue, epochChan, cancelClosed,
                   errorChan, enqueued, received>>
    /\ UNCHANGED <<dispVars, backendVars, regVars, cancelVars, confVars,
                   viewVars, spendVars, filterVars>>

\* After the loop: b.txNotifier.TearDown(), chainConn.StopRescan(), return.
\* TearDown on the nil tracker of a notifier that never started panics.
StopTearDown ==
    /\ ~crashed
    /\ stopPc = "clients"
    /\ stopCur = <<>>
    /\ blockEpochClients \subseteq stopDone
    /\ IF txNotifier
       THEN /\ tornDown' = TRUE
            /\ stopPc' = "returned"
            /\ liveAtReturn' = LiveGoroutines
            /\ UNCHANGED crashed
       ELSE /\ crashed' = TRUE
            /\ UNCHANGED <<tornDown, stopPc, liveAtReturn>>
    /\ UNCHANGED <<started, stopped, startPc, stopCur, stopDone, quitCloses,
                   txNotifier, bestBlock, trackerHeight>>
    /\ UNCHANGED <<dispVars, backendVars, regVars, pipeVars, cancelVars,
                   confVars, viewVars, spendVars, filterVars>>

(***************************************************************************)
(* The backend collaborator.                                               *)
(***************************************************************************)
\* a notification is produced while the client is connected
Connected == startPc = "done" /\ stopped = 0

BackendConnect(v) ==
    /\ ~crashed
    /\ BackendHeight < MaxHeight
    /\ nEvents < MaxEvents
    /\ Connected => Len(ntfns) < MaxNtfns
    /\ chain' = Append(chain, v)
    /\ nEvents' = nEvents + 1
    /\ ntfns' = IF Connected
                THEN Append(ntfns, <<"connected", BackendHeight + 1, v>>)
                ELSE ntfns
    /\ UNCHANGED connectedSeen
    /\ UNCHANGED <<lifeVars, dispVars, regVars, pipeVars, cancelVars, confVars,
                   viewVars, spendVars, filterVars>>

BackendDisconnect ==
    /\ ~crashed
    /\ BackendHeight > 1
    /\ nEvents < MaxEvents
    /\ Connected => Len(ntfns) < MaxNtfns
    /\ chain' = SubSeq(chain, 1, BackendHeight - 1)
    /\ nEvents' = nEvents + 1
    /\ ntfns' = IF Connected
                THEN Append(ntfns, <<"disconnected", BackendHeight,
                                     chain[BackendHeight]>>)
                ELSE ntfns
    /\ UNCHANGED connectedSeen
    /\ UNCHANGED <<lifeVars, dispVars, regVars, pipeVars, cancelVars, confVars,
                   viewVars, spendVars, filterVars>>

(***************************************************************************)
(* RegisterBlockEpochNtfn, its proxy goroutine and its Cancel closure.     *)
(***************************************************************************)
HintValues == {<<>>} \cup {<<h>> : h \in Heights}

\* atomic.AddUint64(&counter, delta): one indivisible step that returns the
\* new value (the counters stay far below 2^64 within the bounds)
AddUint64Load(v, delta) == v
AddUint64(v, delta) == v + delta

\* how many identifiers of one kind were taken
Taken(kind) == Cardinality({i \in DOMAIN issued : issued[i][1] = kind})

\* the first statement of a registration call, for any number of calls of
\* any callers: `epochID: atomic.AddUint64(&b.epochClientCounter, 1)`,
\* `confID := atomic.AddUint64(&b.confClientCounter, 1)`,
\* `spendID := atomic.AddUint64(&b.spendClientCounter, 1)`
NextEpochID ==
    /\ Taken("epochID") < MaxIds
    /\ epochClientCounter' = AddUint64(epochClientCounter, 1)
    /\ issued' = Append(issued, <<"epochID", epochClientCounter'>>)
    /\ UNCHANGED <<confClientCounter, spendClientCounter>>
    /\ UNCHANGED <<regPc, hint, blockEpochClients, acceptedAt>>
    /\ UNCHANGED <<spendPc, spendDispatch, spendUpdateCalls, trackerReqs,
                   teardownCalls>>
    /\ UNCHANGED <<lifeVars, dispVars, backendVars, pipeVars, cancelVars,
                   confVars, viewVars, filterVars>>

NextConfID ==
    /\ Taken("confID") < MaxIds
    /\ confClientCounter' = AddUint64(confClientCounter, 1)
    /\ issued' = Append(issued, <<"confID", confClientCounter'>>)
    /\ UNCHANGED <<epochClientCounter, spendClientCounter>>
    /\ UNCHANGED <<regPc, hint, blockEpochClients, acceptedAt>>
    /\ UNCHANGED <<spendPc, spendDispatch, spendUpdateCalls, trackerReqs,
                   teardownCalls>>
    /\ UNCHANGED <<lifeVars, dispVars, backendVars, pipeVars, cancelVars,
                   confVars, viewVars, filterVars>>

NextSpendID ==
    /\ Taken("spendID") < MaxIds
    /\ spendClientCounter' = AddUint64(spendClientCounter, 1)
    /\ issued' = Append(issued, <<"spendID", spendClientCounter'>>)
    /\ UNCHANGED <<epochClientCounter, confClientCounter>>
    /\ UNCHANGED <<regPc, hint, blockEpochClients, acceptedAt>>
    /\ UNCHANGED <<spendPc, spendDispatch, spendUpdateCalls, trackerReqs,
                   teardownCalls>>
    /\ UNCHANGED <<lifeVars, dispVars, backendVars, pipeVars, cancelVars,
                   confVars, viewVars, filterVars>>

\* The call up to its select: the registration is built with the next
\* epochID and the proxy goroutine is launched.
RegisterBlockEpochNtfn(h) ==
    /\ ~crashed
    /\ epochClientCounter < MaxClients
    /\ LET c == AddUint64(epochClientCounter, 1) IN
        /\ epochClientCounter' = c
        /\ regPc' = [regPc EXCEPT ![c] = "select"]
        /\ hint' = [hint EXCEPT ![c] = h]
        /\ proxyPc' = [proxyPc EXCEPT ![c] = "idle"]
    /\ UNCHANGED <<blockEpochClients, acceptedAt, idVars>>
    /\ UNCHANGED <<proxyItem, epochQueue, epochChan, epochClosed, cancelClosed,
                   errorChan, enqueued, received>>
    /\ UNCHANGED <<lifeVars, dispVars, backendVars, cancelVars, confVars,
                   viewVars, spendVars, filterVars>>

\* `case <-b.quit:` of the call's select: the queue is stopped and an error
\* is returned.
RegisterQuit(c) ==
    /\ ~crashed
    /\ regPc[c] = "select"
    /\ QuitClosed
    /\ regPc' = [regPc EXCEPT ![c] = "err"]
    /\ UNCHANGED <<epochClientCounter, hint, blockEpochClients, acceptedAt,
                   idVars>>
    /\ UNCHANGED <<lifeVars, dispVars, backendVars, pipeVars, cancelVars,
                   confVars, viewVars, spendVars, filterVars>>

\* queue.ConcurrentQueue: ChanIn() appends at the tail, ChanOut() yields the head
QueuePush(q, e) == Append(q, e)
QueueHead(q) == Head(q)
QueuePop(q) == Tail(q)

\* proxy, outer select, `case ntfn := <-reg.epochQueue.ChanOut():`
ProxyTake(c) ==
    /\ ~crashed
    /\ proxyPc[c] = "idle"
    /\ epochQueue[c] # <<>>
    /\ proxyPc' = [proxyPc EXCEPT ![c] = "hold"]
    /\ proxyItem' = [proxyItem EXCEPT ![c] = <<QueueHead(epochQueue[c])>>]
    /\ epochQueue' = [epochQueue EXCEPT ![c] = QueuePop(@)]
    /\ UNCHANGED <<epochChan, epochClosed, cancelClosed, errorChan, enqueued,
                   received>>
    /\ UNCHANGED <<lifeVars, dispVars, backendVars, regVars, cancelVars,
                   confVars, viewVars, spendVars, filterVars>>

\* what the proxy's inner select leaves in the delivery channel
ProxySendDup(ch, e) == ch \o <<e, e>>
ProxySend(ch, e) == Append(ch, e)

\* proxy, inner select, `case reg.epochChan <- blockNtfn:`; a send on a
\* closed channel panics
ProxyForward(c) ==
    /\ ~crashed
    /\ proxyPc[c] = "hold"
    /\ epochClosed[c] \/ Len(epochChan[c]) < EpochChanCap
    /\ proxyPc' = [proxyPc EXCEPT ![c] = "idle"]
    /\ proxyItem' = [proxyItem EXCEPT ![c] = <<>>]
    /\ IF epochClosed[c]
       THEN crashed' = TRUE /\ UNCHANGED epochChan
       ELSE /\ epochChan' = [epochChan EXCEPT ![c] = ProxySend(@, proxyItem[c][1])]
            /\ UNCHANGED crashed
    /\ UNCHANGED <<epochQueue, epochClosed, cancelClosed, errorChan, enqueued,
                   received>>
    /\ UNCHANGED <<started, stopped, startPc, stopPc, stopCur, stopDone,
                   quitCloses, txNotifier, tornDown, liveAtReturn, bestBlock,
                   trackerHeight>>
    /\ UNCHANGED <<dispVars, backendVars, regVars, cancelVars, confVars,
                   viewVars, spendVars, filterVars>>

\* proxy, either select, `case <-reg.cancelChan:` or `case <-b.quit:`
ProxyExit(c) ==
    /\ ~crashed
    /\ proxyPc[c] \in {"idle", "hold"}
    /\ cancelClosed[c] \/ QuitClosed
    /\ proxyPc' = [proxyPc EXCEPT ![c] = "exited"]
    /\ proxyItem' = [proxyItem EXCEPT ![c] = <<>>]
    /\ UNCHANGED <<epochQueue, epochChan, epochClosed, cancelClosed, errorChan,
                   enqueued, received>>
    /\ UNCHANGED <<lifeVars, dispVars, backendVars, regVars, cancelVars,
                   confVars, viewVars, spendVars, filterVars>>

\* the subscriber reads its Epochs channel
ClientRecv(c) ==
    /\ ~crashed
    /\ regPc[c] = "ok"
    /\ cancelPc[c] = "none"
    /\ epochChan[c] # <<>>
    /\ received' = [received EXCEPT ![c] = Append(@, Head(epochChan[c]))]
    /\ epochChan' = [epochChan EXCEPT ![c] = Tail(@)]
    /\ UNCHANGED <<proxyPc, proxyItem, epochQueue, epochClosed, cancelClosed,
                   errorChan, enqueued>>
    /\ UNCHANGED <<lifeVars, dispVars, backendVars, regVars, cancelVars,
                   confVars, viewVars, spendVars, filterVars>>

\* the subscriber calls Cancel
Cancel(c) ==
    /\ ~crashed
    /\ regPc[c] = "ok"
    /\ cancelPc[c] = "none"
    /\ cancelPc' = [cancelPc EXCEPT ![c] = "send"]
    /\ UNCHANGED cancelVia
    /\ UNCHANGED <<lifeVars, dispVars, backendVars, regVars, pipeVars,
                   confVars, viewVars, spendVars, filterVars>>

\* Cancel, `case <-b.quit:` of either select
CancelQuit(c) ==
    /\ ~crashed
    /\ cancelPc[c] \in {"send", "drain"}
    /\ QuitClosed
    /\ cancelPc' = [cancelPc EXCEPT ![c] = "done"]
    /\ cancelVia' = [cancelVia EXCEPT ![c] = "quit"]
    /\ UNCHANGED <<lifeVars, dispVars, backendVars, regVars, pipeVars,
                   confVars, viewVars, spendVars, filterVars>>

\* Cancel, the drain loop, `case _, ok := <-reg.epochChan:`
CancelDrain(c) ==
    /\ ~crashed
    /\ cancelPc[c] = "drain"
    /\ \/ /\ epochChan[c] # <<>>
          /\ epochChan' = [epochChan EXCEPT ![c] = Tail(@)]
          /\ UNCHANGED cancelVars
       \/ /\ epochChan[c] = <<>>
          /\ epochClosed[c]
          /\ cancelPc' = [cancelPc EXCEPT ![c] = "done"]
          /\ cancelVia' = [cancelVia EXCEPT ![c] = "closed"]
          /\ UNCHANGED epochChan
    /\ UNCHANGED <<proxyPc, proxyItem, epochQueue, epochClosed, cancelClosed,
                   errorChan, enqueued, received>>
    /\ UNCHANGED <<lifeVars, dispVars, backendVars, regVars, confVars,
                   viewVars, spendVars, filterVars>>

(***************************************************************************)
(* notificationDispatcher                                                  *)
(***************************************************************************)
\* chainntnfs.GetClientMissedBlocks(chainConn, hint, bestHeight, false):
\* the blocks after the hint up to the notifier's best height, each with
\* the hash the backend reports for its height.  Asking the backend for the
\* hash of a height it does not have fails.
MissedBlocksFails(h, best) == h < best /\ best > BackendHeight
GetClientMissedBlocks(h, best) == [i \in 1..(best - h) |-> Epoch(h + i)]

\* what the handler of a new registration has to notify: the current tip
\* when there is no hint, else the missed blocks
BacklogTipTwice(c) ==
    IF hint[c] = <<>>
    THEN <<bestBlock, bestBlock>>
    ELSE GetClientMissedBlocks(hint[c][1], bestBlock[1])
Backlog(c) ==
    IF hint[c] = <<>>
    THEN <<bestBlock>>
    ELSE GetClientMissedBlocks(hint[c][1], bestBlock[1])

\* `case registerMsg := <-b.notificationRegistry:`, *blockEpochRegistration:
\* the registration is stored and RegisterBlockEpochNtfn returns its event
DispRegisterEpoch(c) ==
    /\ ~crashed
    /\ dispPc = "select"
    /\ regPc[c] = "select"
    /\ ~QuitClosed
    /\ regPc' = [regPc EXCEPT ![c] = "ok"]
    /\ blockEpochClients' = blockEpochClients \cup {c}
    /\ acceptedAt' = [acceptedAt EXCEPT ![c] = Len(connectedSeen)]
    /\ dispPc' = "notify"
    /\ dispClient' = <<c>>
    /\ \E rpcFails \in BOOLEAN :
         IF hint[c] # <<>> /\ (rpcFails \/ MissedBlocksFails(hint[c][1], bestBlock[1]))
         THEN dispPending' = <<>> /\ dispErr' = "err"
         ELSE dispPending' = Backlog(c) /\ dispErr' = "nil"
    /\ mtxLog' = mtxLog \cup
          {BestBlockAccess("notificationDispatcher", "read", hint[c] # <<>>)}
    /\ UNCHANGED <<epochClientCounter, hint, dispLaunches, idVars, hbcCalls>>
    /\ UNCHANGED <<lifeVars, backendVars, pipeVars, cancelVars, confVars,
                   viewVars, spendVars, filterVars>>

\* the same case with a backend that does not answer: the handler of a
\* registration with a hint calls chainntnfs.GetClientMissedBlocks on
\* b.chainConn from the dispatcher goroutine itself, and the call does not
\* return
DispRegisterEpochStall(c) ==
    /\ ~crashed
    /\ dispPc = "select"
    /\ regPc[c] = "select"
    /\ ~QuitClosed
    /\ hint[c] # <<>>
    /\ regPc' = [regPc EXCEPT ![c] = "ok"]
    /\ blockEpochClients' = blockEpochClients \cup {c}
    /\ acceptedAt' = [acceptedAt EXCEPT ![c] = Len(connectedSeen)]
    /\ dispPc' = "rpc"
    /\ dispClient' = <<c>>
    /\ mtxLog' = mtxLog \cup
          {BestBlockAccess("notificationDispatcher", "read", TRUE)}
    /\ UNCHANGED <<dispPending, dispErr>>
    /\ UNCHANGED <<epochClientCounter, hint, dispLaunches, idVars, hbcCalls>>
    /\ UNCHANGED <<lifeVars, backendVars, pipeVars, cancelVars, confVars,
                   viewVars, spendVars, filterVars>>

\* queue.ConcurrentQueue: a send on ChanIn() is taken whatever the queue
\* holds
QueueAccepts(q) == TRUE

\* whether the send of notifyBlockEpochClient's select can proceed:
\* `case epochClient.epochQueue.ChanIn() <- epoch:`, a send to the
\* registration's queue, not to its delivery channel
NotifyCanSendToEpochChan(c) == Len(epochChan[c]) < EpochChanCap
NotifyCanSend(c) == QueueAccepts(epochQueue[c])

\* handleBlockConnected(block): what it calls and assigns, in order, for
\* each answer of the backend and of the tracker.  The function is called
\* from nowhere in the notifier (the BlockConnected case only prints), so
\* its call is an input of the model, made from the dispatcher's loop.
HandleBlockAnswers == {"getBlockErr", "connectTipErr", "notifyHeightErr", "ok"}
HandleBlockEffectsTipFirst(ans) ==
    IF ans = "getBlockErr" THEN <<"GetBlock">>
    ELSE IF ans = "connectTipErr" THEN <<"GetBlock", "bestBlock", "ConnectTip">>
    ELSE <<"GetBlock", "bestBlock", "ConnectTip", "notifyBlockEpochs",
           "NotifyHeight">>
HandleBlockEffects(ans) ==
    IF ans = "getBlockErr" THEN <<"GetBlock">>
    ELSE IF ans = "connectTipErr" THEN <<"GetBlock", "ConnectTip">>
    ELSE <<"GetBlock", "ConnectTip", "bestBlock", "notifyBlockEpochs",
           "NotifyHeight">>

Has(effects, e) == \E i \in DOMAIN effects : effects[i] = e

HandleBlockConnected(h, ans) ==
    /\ ~crashed
    /\ dispPc = "select"
    /\ Len(hbcCalls) < MaxTips
    /\ h \in 1..BackendHeight
    /\ LET block == Epoch(h)
           effects == HandleBlockEffects(ans)
       IN  /\ hbcCalls' = Append(hbcCalls, <<block, ans, effects>>)
           /\ trackerHeight' = IF ans \in {"getBlockErr", "connectTipErr"}
                                THEN trackerHeight ELSE h
           /\ IF Has(effects, "bestBlock")
              THEN /\ bestBlock' = block
                   /\ mtxLog' = mtxLog \cup
                         {BestBlockAccess("handleBlockConnected", "write", FALSE)}
              ELSE UNCHANGED <<bestBlock, mtxLog>>
           /\ IF Has(effects, "notifyBlockEpochs")
              THEN \E sent \in SUBSET blockEpochClients :
                     /\ \A c \in blockEpochClients \ sent :
                           cancelClosed[c] \/ QuitClosed
                     /\ \A c \in sent : NotifyCanSend(c)
                     /\ epochQueue' = [c \in Clients |->
                           IF c \in sent THEN QueuePush(epochQueue[c], block)
                           ELSE epochQueue[c]]
                     /\ enqueued' = [c \in Clients |->
                           IF c \in sent THEN Append(enqueued[c], block)
                           ELSE enqueued[c]]
              ELSE UNCHANGED <<epochQueue, enqueued>>
    /\ UNCHANGED <<started, stopped, startPc, stopPc, stopCur, stopDone,
                   quitCloses, txNotifier, tornDown, liveAtReturn, crashed>>
    /\ UNCHANGED <<dispPc, dispLaunches, dispClient, dispPending, dispErr>>
    /\ UNCHANGED <<proxyPc, proxyItem, epochChan, epochClosed, cancelClosed,
                   errorChan, received>>
    /\ UNCHANGED <<backendVars, regVars, cancelVars, confVars, viewVars,
                   spendVars, filterVars>>

\* notifyBlockEpochClient for the next epoch of the backlog: the select
\* enqueues it, or gives it up when cancelChan or quit is closed
DispNotify(c) ==
    /\ ~crashed
    /\ dispPc = "notify"
    /\ dispClient = <<c>>
    /\ dispPending # <<>>
    /\ dispPending' = Tail(dispPending)
    /\ \/ /\ NotifyCanSend(c)
          /\ epochQueue' = [epochQueue EXCEPT ![c] = QueuePush(@, Head(dispPending))]
          /\ enqueued' = [enqueued EXCEPT ![c] = Append(@, Head(dispPending))]
       \/ /\ cancelClosed[c] \/ QuitClosed
          /\ UNCHANGED <<epochQueue, enqueued>>
    /\ UNCHANGED <<dispPc, dispLaunches, dispClient, dispErr, mtxLog,
                   hbcCalls>>
    /\ UNCHANGED <<proxyPc, proxyItem, epochChan, epochClosed, cancelClosed,
                   errorChan, received>>
    /\ UNCHANGED <<lifeVars, backendVars, regVars, cancelVars, confVars,
                   viewVars, spendVars, filterVars>>

\* `msg.errorChan <- nil` (or err), then back to the select
DispFinishReg(c) ==
    /\ ~crashed
    /\ dispPc = "notify"
    /\ dispClient = <<c>>
    /\ dispPending = <<>>
    /\ errorChan' = [errorChan EXCEPT ![c] = Append(@, dispErr)]
    /\ dispPc' = "select"
    /\ dispClient' = <<>>
    /\ dispErr' = "nil"
    /\ UNCHANGED <<dispLaunches, dispPending, mtxLog, hbcCalls>>
    /\ UNCHANGED <<proxyPc, proxyItem, epochQueue, epochChan, epochClosed,
                   cancelClosed, enqueued, received>>
    /\ UNCHANGED <<lifeVars, backendVars, regVars, cancelVars, confVars,
                   viewVars, spendVars, filterVars>>

\* `case cancelMsg := <-b.notificationCancels:`: the message is received
\* (Cancel moves on to its drain loop) and dropped
DispCancel(c) ==
    /\ ~crashed
    /\ dispPc = "select"
    /\ cancelPc[c] = "send"
    /\ ~QuitClosed
    /\ cancelPc' = [cancelPc EXCEPT ![c] = "drain"]
    /\ UNCHANGED cancelVia
    /\ UNCHANGED <<lifeVars, dispVars, backendVars, regVars, pipeVars,
                   confVars, viewVars, spendVars, filterVars>>

\* `case ntfn := <-b.chainConn.Notifications():`: every kind of notification
\* is received and dropped
DispNtfn ==
    /\ ~crashed
    /\ dispPc = "select"
    /\ ntfns # <<>>
    /\ ntfns' = Tail(ntfns)
    /\ connectedSeen' = IF Head(ntfns)[1] = "connected"
                        THEN Append(connectedSeen, <<Head(ntfns)[2], Head(ntfns)[3]>>)
                        ELSE connectedSeen
    /\ UNCHANGED <<chain, nEvents>>
    /\ UNCHANGED <<lifeVars, dispVars, regVars, pipeVars, cancelVars, confVars,
                   viewVars, spendVars, filterVars>>

\* `case <-b.quit:`
DispQuit ==
    /\ ~crashed
    /\ dispPc = "select"
    /\ QuitClosed
    /\ dispPc' = "exited"
    /\ UNCHANGED <<dispLaunches, dispClient, dispPending, dispErr, mtxLog,
                   hbcCalls>>
    /\ UNCHANGED <<lifeVars, backendVars, regVars, pipeVars, cancelVars,
                   confVars, viewVars, spendVars, filterVars>>

(***************************************************************************)
(* RegisterConfirmationsNtfn and the historical confirmation resolver.     *)
(***************************************************************************)
\* The call up to its select.  txNotifier.RegisterConf decides whether a
\* historical dispatch is needed and over which heights; on a nil tracker
\* it panics, on a torn-down tracker it returns an error.
RegisterConfirmationsNtfn(r, dispatch, s, e) ==
    /\ ~crashed
    /\ confPc[r] = "none"
    /\ \A q \in Confs : q < r => confPc[q] # "none"
    /\ IF ~txNotifier
       THEN crashed' = TRUE /\ UNCHANGED <<confVars, trackerReqs, teardownCalls>>
       ELSE /\ UNCHANGED crashed
            /\ confPc' = [confPc EXCEPT ![r] =
                              IF tornDown THEN "rejected"
                              ELSE IF dispatch THEN "send" ELSE "tip"]
            /\ confStart' = [confStart EXCEPT ![r] = IF tornDown \/ ~dispatch THEN 0 ELSE s]
            /\ confEnd' = [confEnd EXCEPT ![r] = IF tornDown \/ ~dispatch THEN 0 ELSE e]
            /\ trackerReqs' = IF tornDown THEN trackerReqs
                              ELSE trackerReqs \cup {<<"conf", r>>}
            /\ teardownCalls' = IF QuitClosed THEN teardownCalls \cup {<<"conf", r>>}
                                ELSE teardownCalls
            /\ UNCHANGED <<scanHeight, confDetails, updateCalls, scanLog, confErr,
                           lookupVars>>
    /\ UNCHANGED <<started, stopped, startPc, stopPc, stopCur, stopDone,
                   quitCloses, txNotifier, tornDown, liveAtReturn, bestBlock,
                   trackerHeight>>
    /\ UNCHANGED <<spendClientCounter, spendPc, spendDispatch, spendUpdateCalls>>
    /\ UNCHANGED <<dispVars, backendVars, regVars, pipeVars, cancelVars,
                   viewVars, filterVars>>

\* `case <-b.quit:` of the call's select
ConfQuit(r) ==
    /\ ~crashed
    /\ confPc[r] = "send"
    /\ QuitClosed
    /\ confPc' = [confPc EXCEPT ![r] = "rejected"]
    /\ UNCHANGED <<confStart, confEnd, scanHeight, confDetails, updateCalls,
                   scanLog, confErr, lookupVars>>
    /\ UNCHANGED <<lifeVars, dispVars, backendVars, regVars, pipeVars,
                   cancelVars, viewVars, spendVars, filterVars>>

\* `case registerMsg := <-b.notificationRegistry:`, *HistoricalConfDispatch:
\* b.wg.Add(1) and the resolver goroutine is launched
DispRegisterConf(r) ==
    /\ ~crashed
    /\ dispPc = "select"
    /\ confPc[r] = "send"
    /\ ~QuitClosed
    /\ confPc' = [confPc EXCEPT ![r] = "scan"]
    /\ scanHeight' = [scanHeight EXCEPT ![r] = confEnd[r]]
    /\ UNCHANGED <<confStart, confEnd, confDetails, updateCalls, scanLog, confErr,
                   lookupVars>>
    /\ UNCHANGED <<lifeVars, dispVars, backendVars, regVars, pipeVars,
                   cancelVars, viewVars, spendVars, filterVars>>

\* What the backend can answer for one height of the scan: GetBlockHash
\* fails; GetCFilter fails or returns a nil filter; the filter does not
\* match, or Match fails; GetFilterBlock fails, or returns transactions of
\* which none, or the one at some index, matches the request.
ScanAnswers == {"hashErr", "filterErr", "nilFilter", "noMatch", "matchErr",
                "blockErr", "noTx", "tx"}
ScanErrors == {"hashErr", "filterErr", "matchErr", "blockErr"}

\* the backend calls one iteration makes, by the answers it gets
BackendCallsAlwaysFetch(ans) ==
    IF ans = "hashErr" THEN <<"GetBlockHash">>
    ELSE <<"GetBlockHash", "GetCFilter", "GetFilterBlock">>
BackendCalls(ans) ==
    IF ans = "hashErr" THEN <<"GetBlockHash">>
    ELSE IF ans \in {"filterErr", "nilFilter", "noMatch", "matchErr"}
    THEN <<"GetBlockHash", "GetCFilter">>
    ELSE <<"GetBlockHash", "GetCFilter", "GetFilterBlock">>

\* the loop condition of historicalConfDetails
\* `scanHeight--` / `height--` on a uint32: the width is scaled to the
\* model's range of heights, so that 0 - 1 is the largest height
Uint32Mod == MaxHeight + 1
DecUint32(h) == (h - 1) % Uint32Mod

ScanContinuesNoFloor(r) == scanHeight[r] >= confStart[r]
ScanContinues(r) == scanHeight[r] >= confStart[r] /\ scanHeight[r] > 0

\* the select at the head of each iteration: `case <-b.quit:`
ScanQuitIgnored(closed) == FALSE
ScanQuit(closed) == closed

\* the TxConfirmation built for the transaction at index idx of the block
\* fetched for height h: BlockHash, BlockHeight, TxIndex
TxConfirmationFirstIndex(h, idx) == <<h, HashAt(h), 0>>
TxConfirmation(h, idx) == <<h, HashAt(h), idx>>

\* whether the resolver goroutine reports a successful result to the tracker
ReportsOnlyFound(details) == details # <<>>
Reports(details) == TRUE

\* the resolver goroutine returns from historicalConfDetails without an
\* error and calls txNotifier.UpdateConfDetails
ConfReport(r, details) ==
    /\ confPc' = [confPc EXCEPT ![r] = IF details = <<>> THEN "notfound" ELSE "found"]
    /\ confDetails' = [confDetails EXCEPT ![r] = details]
    /\ updateCalls' = [updateCalls EXCEPT ![r] =
                          IF Reports(details) THEN Append(@, details) ELSE @]
    /\ UNCHANGED <<confStart, confEnd, scanHeight, confErr>>

\* the resolver goroutine returns after an error of historicalConfDetails:
\* the error is logged
ConfAbort(r, err) ==
    /\ confPc' = [confPc EXCEPT ![r] = "error"]
    /\ confErr' = [confErr EXCEPT ![r] = err]
    /\ UNCHANGED <<confStart, confEnd, scanHeight, confDetails, updateCalls>>

\* One iteration of the loop of historicalConfDetails (or its end), with the
\* backend's answers for the height, then the goroutine's report.  A height
\* above the backend's tip has no block: GetBlockHash fails.
ConfScanStep(r, answer, idx) ==
    LET ans == IF scanHeight[r] > BackendHeight THEN "hashErr" ELSE answer
        entry == <<scanHeight[r], ans, BackendCalls(ans),
                   IF ans = "tx" THEN <<idx>> ELSE <<>>>>
    IN
    /\ ~crashed
    /\ confPc[r] = "scan"
    /\ IF ~ScanContinues(r)
       THEN ConfReport(r, <<>>) /\ UNCHANGED scanLog
       ELSE IF ScanQuit(QuitClosed)
       THEN ConfAbort(r, "shuttingDown") /\ UNCHANGED scanLog
       ELSE /\ scanLog' = [scanLog EXCEPT ![r] = Append(@, entry)]
            /\ IF ans \in ScanErrors
               THEN ConfAbort(r, "io")
               ELSE IF ans = "tx"
               THEN ConfReport(r, TxConfirmation(scanHeight[r], idx))
               ELSE /\ scanHeight' = [scanHeight EXCEPT ![r] = DecUint32(@)]
                    /\ UNCHANGED <<confPc, confStart, confEnd, confDetails,
                                   updateCalls, confErr>>
    /\ UNCHANGED lookupVars
    /\ UNCHANGED <<lifeVars, dispVars, backendVars, regVars, pipeVars,
                   cancelVars, viewVars, spendVars, filterVars>>

(***************************************************************************)
(* confDetailsManually and confDetailsFromTxIndex.  Neither is called by   *)
(* the notifier; each call below is a call of the method itself.           *)
(***************************************************************************)
\* What the backend can answer for one height of the manual scan:
\* GetBlockHash fails; GetBlock fails, or returns a block of which no
\* transaction, or the one at some index, matches the request.
ManualAnswers == {"hashErr", "blockErr", "noTx", "tx"}

\* the backend calls one iteration of the manual scan makes
ManualCalls(ans) ==
    IF ans = "hashErr" THEN <<"GetBlockHash">> ELSE <<"GetBlockHash", "GetBlock">>

\* the loop condition of confDetailsManually
ManualContinues == manHeight >= manHint /\ manHeight > 0

\* the select at the head of each iteration: `case <-b.quit:`
ManualQuit(closed) == closed

\* confDetailsManually(confRequest, heightHint, currentHeight) is entered
ConfDetailsManually(heightHint, currentHeight) ==
    /\ ~crashed
    /\ manPc = "none"
    /\ manPc' = "scan"
    /\ manHint' = heightHint
    /\ manCur' = currentHeight
    /\ manHeight' = currentHeight
    /\ UNCHANGED <<manLog, manResult, txIndexCalls>>
    /\ UNCHANGED <<confPc, confStart, confEnd, scanHeight, confDetails,
                   updateCalls, scanLog, confErr>>
    /\ UNCHANGED <<lifeVars, dispVars, backendVars, regVars, pipeVars,
                   cancelVars, viewVars, spendVars, filterVars>>

\* the loop over block.Transactions returns at the first transaction that
\* matches: the lowest of the matching indexes
FirstMatchHighest(matches) == CHOOSE i \in matches : \A j \in matches : j <= i
FirstMatch(matches) == CHOOSE i \in matches : \A j \in matches : i <= j

\* One iteration of the loop of confDetailsManually, or its end; matches is
\* the set of indexes of the block's transactions that match the request
\* (read when the answer is "tx").
ManualScanStep(answer, matches) ==
    LET ans == IF manHeight > BackendHeight THEN "hashErr" ELSE answer
        entry == <<manHeight, ans, ManualCalls(ans),
                   IF ans = "tx" THEN matches ELSE {}>>
    IN
    /\ ~crashed
    /\ manPc = "scan"
    /\ IF ~ManualContinues
       THEN /\ manPc' = "done"
            /\ manResult' = <<<<>>, "TxNotFoundManually", "nil">>
            /\ UNCHANGED <<manHeight, manLog>>
       ELSE IF ManualQuit(QuitClosed)
       THEN /\ manPc' = "done"
            /\ manResult' = <<<<>>, "TxNotFoundManually", "shuttingDown">>
            /\ UNCHANGED <<manHeight, manLog>>
       ELSE /\ manLog' = Append(manLog, entry)
            /\ IF ans \in {"hashErr", "blockErr"}
               THEN /\ manPc' = "done"
                    /\ manResult' = <<<<>>, "TxNotFoundManually", "io">>
                    /\ UNCHANGED manHeight
               ELSE IF ans = "tx"
               THEN /\ manPc' = "done"
                    /\ manResult' = <<TxConfirmation(manHeight, FirstMatch(matches)),
                                      "TxFoundManually", "nil">>
                    /\ UNCHANGED manHeight
               ELSE /\ manHeight' = DecUint32(manHeight)
                    /\ UNCHANGED <<manPc, manResult>>
    /\ UNCHANGED <<manHint, manCur, txIndexCalls>>
    /\ UNCHANGED <<confPc, confStart, confEnd, scanHeight, confDetails,
                   updateCalls, scanLog, confErr>>
    /\ UNCHANGED <<lifeVars, dispVars, backendVars, regVars, pipeVars,
                   cancelVars, viewVars, spendVars, filterVars>>

\* What the backend can answer to confDetailsFromTxIndex:
\* GetRawTransactionVerbose fails with ErrRPCNoTxInfo and the "No such
\* mempool or blockchain transaction" message, or with another error; the
\* transaction comes with an empty BlockHash; its BlockHash does not parse;
\* GetBlockVerbose fails; the block's listing lacks the txid; the listing
\* has it but the transaction's hex does not deserialize; or the listing
\* has it and the transaction deserializes.
TxIndexAnswers == {"noTxInfo", "rpcErr", "mempool", "badHash", "blockErr",
                   "notListed", "badTx", "listed"}

\* what confDetailsFromTxIndex returns: <<details, status, error>>, for a
\* block of height h and hash v listing the txid at index idx
TxIndexResultMempoolAsNotFound(ans, h, v, idx) ==
    IF ans = "listed" THEN <<<<h, v, idx>>, "TxFoundIndex", "nil">>
    ELSE <<<<>>, "TxNotFoundIndex",
           IF ans \in {"noTxInfo", "mempool"} THEN "nil" ELSE "err">>
TxIndexResult(ans, h, v, idx) ==
    IF ans = "noTxInfo" THEN <<<<>>, "TxNotFoundIndex", "nil">>
    ELSE IF ans = "rpcErr" THEN <<<<>>, "TxNotFoundIndex", "err">>
    ELSE IF ans = "mempool" THEN <<<<>>, "TxFoundMempool", "nil">>
    ELSE IF ans \in {"badHash", "blockErr"} THEN <<<<>>, "TxNotFoundIndex", "err">>
    ELSE IF ans = "badTx" THEN <<<<>>, "TxFoundIndex", "err">>
    ELSE IF ans = "listed" THEN <<<<h, v, idx>>, "TxFoundIndex", "nil">>
    ELSE <<<<>>, "TxNotFoundIndex", "err">>

\* confDetailsFromTxIndex(txid), the whole call
ConfDetailsFromTxIndex(ans, h, v, idx) ==
    /\ ~crashed
    /\ Len(txIndexCalls) < MaxLookups
    /\ txIndexCalls' = Append(txIndexCalls,
                              <<<<ans, h, v, idx>>, TxIndexResult(ans, h, v, idx)>>)
    /\ UNCHANGED <<manPc, manHint, manCur, manHeight, manLog, manResult>>
    /\ UNCHANGED <<confPc, confStart, confEnd, scanHeight, confDetails,
                   updateCalls, scanLog, confErr>>
    /\ UNCHANGED <<lifeVars, dispVars, backendVars, regVars, pipeVars,
                   cancelVars, viewVars, spendVars, filterVars>>

(***************************************************************************)
(* RegisterSpendNtfn and the dispatcher's HistoricalSpendDispatch case.    *)
(***************************************************************************)
\* The whole call: the next spendID, chainntnfs.NewSpendRequest (which
\* rejects a request with neither outpoint nor script), the SpendNtfn, and
\* the return of its event.  The call reads neither b.quit nor the tracker.
RegisterSpendNtfn(valid) ==
    /\ ~crashed
    /\ spendClientCounter < MaxSpends
    /\ spendClientCounter' = spendClientCounter + 1
    /\ spendPc' = [spendPc EXCEPT ![spendClientCounter + 1] =
                      IF valid THEN "ok" ELSE "invalid"]
    /\ teardownCalls' = IF QuitClosed
                        THEN teardownCalls \cup {<<"spend", spendClientCounter + 1>>}
                        ELSE teardownCalls
    /\ UNCHANGED <<spendDispatch, spendUpdateCalls, trackerReqs>>
    /\ UNCHANGED <<lifeVars, dispVars, backendVars, regVars, pipeVars,
                   cancelVars, confVars, viewVars, filterVars>>

\* `case registerMsg := <-b.notificationRegistry:`, a
\* *chainntnfs.HistoricalSpendDispatch for spend request s: the handler prints
\* and goes back to the select: no resolver task is launched and
\* txNotifier.UpdateSpendDetails is not called.  (RegisterSpendNtfn sends
\* none; the message is an input of the dispatcher.)
DispRegisterSpend(s) ==
    /\ ~crashed
    /\ dispPc = "select"
    /\ ~QuitClosed
    /\ spendPc[s] = "ok"
    /\ spendDispatch[s] = "none"
    /\ spendDispatch' = [spendDispatch EXCEPT ![s] = "received"]
    /\ UNCHANGED <<spendClientCounter, spendPc, spendUpdateCalls, trackerReqs,
                   teardownCalls>>
    /\ UNCHANGED <<lifeVars, dispVars, backendVars, regVars, pipeVars,
                   cancelVars, confVars, viewVars, filterVars>>

(***************************************************************************)
(* LWFilteredChainView.Start / Stop                                        *)
(***************************************************************************)
\* `atomic.AddInt32(&c.started, 1) != 1`
CvAlreadyStarted(n) == n # 1

CvStart ==
    /\ ~crashed
    /\ cvStarted < MaxCalls
    /\ cvStarted' = cvStarted + 1
    /\ cvStartPc' = IF CvAlreadyStarted(cvStarted + 1) THEN cvStartPc ELSE "init"
    /\ UNCHANGED <<cvStopped, cvStopPc, cvQuitCloses, cvFilterer, cvLaunches>>
    /\ UNCHANGED <<lifeVars, dispVars, backendVars, regVars, pipeVars,
                   cancelVars, confVars, spendVars, filterVars>>

\* chainClient.Start() or chainClient.GetBestBlock() returns an error
CvStartFail ==
    /\ ~crashed
    /\ cvStartPc = "init"
    /\ cvStartPc' = "failed"
    /\ UNCHANGED <<cvStarted, cvStopped, cvStopPc, cvQuitCloses, cvFilterer,
                   cvLaunches>>
    /\ UNCHANGED <<lifeVars, dispVars, backendVars, regVars, pipeVars,
                   cancelVars, confVars, spendVars, filterVars>>

\* blockQueue.Start(), c.wg.Add(1), go c.chainFilterer()
CvStartInit ==
    /\ ~crashed
    /\ cvStartPc = "init"
    /\ cvStartPc' = "done"
    /\ cvFilterer' = "running"
    /\ cvLaunches' = cvLaunches + 1
    /\ UNCHANGED <<cvStarted, cvStopped, cvStopPc, cvQuitCloses>>
    /\ UNCHANGED <<lifeVars, dispVars, backendVars, regVars, pipeVars,
                   cancelVars, confVars, spendVars, filterVars>>

\* `atomic.AddInt32(&c.stopped, 1) != 1`
CvAlreadyStopped(n) == n # 1

\* the guard, close(c.quit), blockQueue.Stop()
CvStop ==
    /\ ~crashed
    /\ cvStopped < MaxCalls
    /\ cvStopped' = cvStopped + 1
    /\ IF CvAlreadyStopped(cvStopped + 1)
       THEN UNCHANGED <<cvStopPc, cvQuitCloses, crashed>>
       ELSE /\ cvStopPc' = "wait"
            /\ cvQuitCloses' = cvQuitCloses + 1
            /\ crashed' = (cvQuitCloses > 0)
    /\ UNCHANGED <<cvStarted, cvStartPc, cvFilterer, cvLaunches>>
    /\ UNCHANGED <<started, stopped, startPc, stopPc, stopCur, stopDone,
                   quitCloses, txNotifier, tornDown, liveAtReturn, bestBlock,
                   trackerHeight>>
    /\ UNCHANGED <<dispVars, backendVars, regVars, pipeVars, cancelVars,
                   confVars, spendVars, filterVars>>

\* chainFilterer, `case <-c.quit: return`
CvFiltererQuit ==
    /\ ~crashed
    /\ cvFilterer = "running"
    /\ cvQuitCloses > 0
    /\ cvFilterer' = "exited"
    /\ UNCHANGED <<cvStarted, cvStopped, cvStartPc, cvStopPc, cvQuitCloses,
                   cvLaunches>>
    /\ UNCHANGED <<lifeVars, dispVars, backendVars, regVars, pipeVars,
                   cancelVars, confVars, spendVars, filterVars>>

\* c.wg.Wait() and return
CvStopWait ==
    /\ ~crashed
    /\ cvStopPc = "wait"
    /\ cvFilterer # "running"
    /\ cvStopPc' = "returned"
    /\ UNCHANGED <<cvStarted, cvStopped, cvStartPc, cvQuitCloses, cvFilterer,
                   cvLaunches>>
    /\ UNCHANGED <<lifeVars, dispVars, backendVars, regVars, pipeVars,
                   cancelVars, confVars, spendVars, filterVars>>

(***************************************************************************)
(* LWFilteredChainView: the block callbacks, UpdateFilter, FilterBlock.    *)
(***************************************************************************)
\* a transaction is the sequence of the previous outpoints of its inputs;
\* the transactions of a block are distinct
Txs == {<<1>>, <<1, 2>>}
BlockTxns == {<<>>} \cup {<<t>> : t \in Txs}
                 \cup {p \in Txs \X Txs : p[1] # p[2]}

\* the outpoints spent by the inputs of the transactions
PrevOuts(txns) ==
    UNION {{txns[i][j] : j \in 1..Len(txns[i])} : i \in 1..Len(txns)}

\* blockEventQueue.Add: the event goes to the tail
BlockQueueAdd(q, ev) == Append(q, ev)

\* the event the queue hands out after n events: the oldest one not yet
\* handed out
BlockQueueNext(q, n) == q[n + 1]

\* the channel an event comes out of: FilteredBlocks() returns
\* c.blockQueue.newBlocks, DisconnectedBlocks() c.blockQueue.staleBlocks
BlockQueueChanSwapped(ev) ==
    IF ev[1] = "connected" THEN "staleBlocks" ELSE "newBlocks"
BlockQueueChan(ev) == IF ev[1] = "connected" THEN "newBlocks" ELSE "staleBlocks"

\* the FilteredBlock an event carries
EventBlock(ev) == <<ev[2], ev[3], ev[4]>>

\* The queue, running between c.blockQueue.Start() and c.blockQueue.Stop(),
\* hands its next event to the consumer reading FilteredBlocks() and
\* DisconnectedBlocks().
BlockQueueDeliver ==
    /\ ~crashed
    /\ cvStartPc = "done"
    /\ cvQuitCloses = 0
    /\ Len(cvObserved) < Len(blockQueue)
    /\ LET ev == BlockQueueNext(blockQueue, Len(cvObserved))
       IN  cvObserved' = Append(cvObserved, <<BlockQueueChan(ev), EventBlock(ev)>>)
    /\ UNCHANGED <<chainFilter, blockQueue, cvHeight, cvBlocks, cvUpdates,
                   cvUpdateRet, fbCalls, fbBlocks>>
    /\ UNCHANGED <<lifeVars, dispVars, backendVars, regVars, pipeVars,
                   cancelVars, confVars, viewVars, spendVars>>

\* the loop of onFilteredBlockConnected: `delete(c.chainFilter,
\* txIn.PreviousOutPoint)` for every input of every transaction
RemoveSpent(filter, txns) == filter \ PrevOuts(txns)

\* the FilteredBlock onFilteredBlockConnected builds, as a connected event
ConnectedBlockNoTxns(height, hash, txns) == <<"connected", hash, height, <<>>>>
ConnectedBlock(height, hash, txns) == <<"connected", hash, height, txns>>

\* the FilteredBlock onFilteredBlockDisconnected builds, as a disconnected
\* event: Transactions is left nil
DisconnectedBlockAsConnected(height, hash) == <<"connected", hash, height, <<>>>>
DisconnectedBlock(height, hash) == <<"disconnected", hash, height, <<>>>>

\* onFilteredBlockConnected(height, header, txns) for the block after the tip
OnFilteredBlockConnected(v, txns) ==
    /\ ~crashed
    /\ Len(blockQueue) < MaxBlockEvents
    /\ cvHeight < MaxHeight
    /\ chainFilter' = RemoveSpent(chainFilter, txns)
    /\ blockQueue' = BlockQueueAdd(blockQueue, ConnectedBlock(cvHeight + 1, v, txns))
    /\ cvHeight' = cvHeight + 1
    /\ cvBlocks' = Append(cvBlocks, <<"connected", v, cvHeight + 1, txns>>)
    /\ UNCHANGED <<cvUpdates, cvUpdateRet, fbCalls, fbBlocks, cvObserved>>
    /\ UNCHANGED <<lifeVars, dispVars, backendVars, regVars, pipeVars,
                   cancelVars, confVars, viewVars, spendVars>>

\* onFilteredBlockDisconnected(height, header) for the tip
OnFilteredBlockDisconnected(v) ==
    /\ ~crashed
    /\ Len(blockQueue) < MaxBlockEvents
    /\ cvHeight > 0
    /\ blockQueue' = BlockQueueAdd(blockQueue, DisconnectedBlock(cvHeight, v))
    /\ cvHeight' = cvHeight - 1
    /\ cvBlocks' = Append(cvBlocks, <<"disconnected", v, cvHeight, <<>>>>)
    /\ UNCHANGED <<chainFilter, cvUpdates, cvUpdateRet, fbCalls, fbBlocks,
                   cvObserved>>
    /\ UNCHANGED <<lifeVars, dispVars, backendVars, regVars, pipeVars,
                   cancelVars, confVars, viewVars, spendVars>>

\* chainFilterer, `case update := <-c.filterUpdates:`: the update is logged;
\* the filter is what it was
FilterAfterUpdateReplace(filter, ops) == ops
FilterAfterUpdate(filter, ops) == filter

\* UpdateFilter(ops, updateHeight), `case c.filterUpdates <- filterUpdate{...}:`
\* with chainFilterer at its select, and chainFilterer's handling of the
\* update.  The update is recorded with the tip height and the number of
\* block events at that moment.
FilterUpdatesBuffered == cvQuitCloses = 0
FilterUpdatesTaken == cvFilterer = "running" /\ cvQuitCloses = 0

UpdateFilter(ops, h) ==
    /\ ~crashed
    /\ Len(cvUpdates) < MaxUpdates
    /\ FilterUpdatesTaken
    /\ chainFilter' = FilterAfterUpdate(chainFilter, ops)
    /\ cvUpdates' = Append(cvUpdates, <<ops, h, cvHeight, Len(blockQueue)>>)
    /\ cvUpdateRet' = "nil"
    /\ UNCHANGED <<blockQueue, cvHeight, cvBlocks, fbCalls, fbBlocks, cvObserved>>
    /\ UNCHANGED <<lifeVars, dispVars, backendVars, regVars, pipeVars,
                   cancelVars, confVars, viewVars, spendVars>>

\* UpdateFilter, `case <-c.quit:`
UpdateFilterQuit ==
    /\ ~crashed
    /\ cvQuitCloses > 0
    /\ cvUpdateRet' = "chain filter shutting down"
    /\ UNCHANGED <<chainFilter, blockQueue, cvHeight, cvBlocks, cvUpdates, fbCalls,
                   fbBlocks, cvObserved>>
    /\ UNCHANGED <<lifeVars, dispVars, backendVars, regVars, pipeVars,
                   cancelVars, confVars, viewVars, spendVars>>

\* the answers of chainClient.GetBlockHeight: <<>> for an error, else <<height>>
HeightLookups == {<<>>} \cup {<<h>> : h \in Heights}

\* what FilterBlock returns, given the answer of chainClient.GetBlockHeight:
\* the error, or the FilteredBlock with no transactions
FilterBlockOnErrorToo(hash, lookup) ==
    <<"ok", hash, IF lookup = <<>> THEN 0 ELSE lookup[1], <<>>>>
FilterBlockResult(hash, lookup) ==
    IF lookup = <<>> THEN <<"err">> ELSE <<"ok", hash, lookup[1], <<>>>>

\* the outpoints the UpdateFilter calls received so far asked to watch
Registered == UNION {cvUpdates[i][1] : i \in 1..Len(cvUpdates)}

\* FilterBlock(blockHash): the height lookup, then the FilteredBlock; with
\* entries in the filter the entries are copied and the same block is
\* returned.  The block is not fetched and c.chainFilter is not written;
\* txns, the transactions the backend holds for the hash, is recorded for
\* the properties only.
FilterBlock(hash, lookup, txns) ==
    /\ ~crashed
    /\ Len(fbCalls) < MaxFilterCalls
    /\ fbCalls' = Append(fbCalls, <<hash, lookup, <<"GetBlockHeight">>,
                                   FilterBlockResult(hash, lookup)>>)
    /\ fbBlocks' = Append(fbBlocks, <<txns, Registered>>)
    /\ UNCHANGED <<chainFilter, blockQueue, cvHeight, cvBlocks, cvUpdates,
                   cvUpdateRet, cvObserved>>
    /\ UNCHANGED <<lifeVars, dispVars, backendVars, regVars, pipeVars,
                   cancelVars, confVars, viewVars, spendVars>>

(***************************************************************************)
(* The specifications.  Each one is the notifier or the filtered chain    *)
(* view with one class of requests:                                        *)
(*   Spec            block-epoch subscribers and the backend's             *)
(*                   notifications;                                        *)
(*   SpecConf        confirmation and spend registrations with the         *)
(*                   historical confirmation dispatches;                   *)
(*   SpecResolver    the historical confirmation dispatches alone;         *)
(*   SpecScans       the filter-match scan and the manual scan;            *)
(*   SpecTxIndex     the transaction-index lookup;                         *)
(*   SpecManual      the manual scan over every range;                     *)
(*   SpecWalk        the two height walks over every range;                *)
(*   SpecStall       Spec with a backend whose calls may not return;       *)
(*   SpecConnect     handleBlockConnected next to registrations;           *)
(*   SpecIds         the identifiers handed to registrations;              *)
(*   SpecLife        repeated and overlapping Start and Stop calls of the  *)
(*                   notifier and of the filtered chain view;              *)
(*   SpecView        the chain view's filter updates and block events;     *)
(*   SpecQueue       the chain view's block events and their consumer;     *)
(*   SpecFilterBlock the chain view's filter updates and FilterBlock.      *)
(* A panic ends the process: no action is enabled once crashed holds.      *)
(***************************************************************************)
Lifecycle ==
    \/ Start \/ StartFail \/ StartInit
    \/ Stop \/ StopWait \/ StopTearDown
    \/ DispQuit

EpochNext ==
    \/ \E c \in Clients : StopCloseCancel(c) \/ StopCloseEpoch(c)
    \/ \E v \in Variants : BackendConnect(v)
    \/ BackendDisconnect
    \/ \E h \in HintValues : RegisterBlockEpochNtfn(h)
    \/ \E c \in Clients :
          \/ RegisterQuit(c) \/ ProxyTake(c) \/ ProxyForward(c) \/ ProxyExit(c)
          \/ ClientRecv(c) \/ Cancel(c) \/ CancelQuit(c) \/ CancelDrain(c)
          \/ DispRegisterEpoch(c) \/ DispNotify(c) \/ DispFinishReg(c)
          \/ DispCancel(c)
    \/ DispNtfn

ConfNext ==
    \/ \E v \in Variants : BackendConnect(v)
    \/ DispNtfn
    \/ \E r \in Confs :
          \/ \E d \in BOOLEAN, s \in Heights, e \in Heights :
                RegisterConfirmationsNtfn(r, d, s, e)
          \/ ConfQuit(r) \/ DispRegisterConf(r)
          \/ \E ans \in ScanAnswers, idx \in 0..1 : ConfScanStep(r, ans, idx)
    \/ \E valid \in BOOLEAN : RegisterSpendNtfn(valid)
    \/ \E s \in Spends : DispRegisterSpend(s)

ViewNext ==
    \/ CvStart \/ CvStartFail \/ CvStartInit
    \/ CvStop \/ CvFiltererQuit \/ CvStopWait

Next == Lifecycle \/ EpochNext
Spec == Init /\ [][Next]_vars

\* handleBlockConnected next to block-epoch registrations
ConnectNext ==
    \/ BackendConnect(1)
    \/ RegisterBlockEpochNtfn(<<>>)
    \/ \E c \in Clients :
          DispRegisterEpoch(c) \/ DispNotify(c) \/ DispFinishReg(c)
    \/ \E h \in Heights, ans \in HandleBlockAnswers : HandleBlockConnected(h, ans)
NextConnect == Lifecycle \/ ConnectNext
SpecConnect == Init /\ [][NextConnect]_vars

\* the identifiers handed to registrations
IdsNext == NextEpochID \/ NextConfID \/ NextSpendID
SpecIds == Init /\ [][IdsNext]_vars

\* the notifier with a backend whose calls may fail to return
StallNext == \E c \in Clients : DispRegisterEpochStall(c)
NextStall == Lifecycle \/ EpochNext \/ StallNext
SpecStall == Init /\ [][NextStall]_vars

NextConf == Lifecycle \/ ConfNext
SpecConf == Init /\ [][NextConf]_vars

NextLife == Lifecycle \/ ViewNext
SpecLife == Init /\ [][NextLife]_vars

UpdateNext ==
    \/ \E ops \in SUBSET Outpoints, h \in Heights : UpdateFilter(ops, h)
    \/ UpdateFilterQuit

BlockNext ==
    \/ \E v \in Variants, txns \in BlockTxns : OnFilteredBlockConnected(v, txns)
    \/ \E v \in Variants : OnFilteredBlockDisconnected(v)

NextView == ViewNext \/ UpdateNext \/ BlockNext
SpecView == Init /\ [][NextView]_vars

ResolverNext ==
    \/ BackendConnect(1)
    \/ \E r \in Confs :
          \/ \E d \in BOOLEAN, s \in Heights, e \in Heights :
                RegisterConfirmationsNtfn(r, d, s, e)
          \/ ConfQuit(r) \/ DispRegisterConf(r)
          \/ \E ans \in ScanAnswers, idx \in 0..1 : ConfScanStep(r, ans, idx)

\* the two scans side by side, each over a range that starts at height 1
ScansNext ==
    \/ BackendConnect(1)
    \/ \E r \in Confs :
          \/ \E e \in Heights : RegisterConfirmationsNtfn(r, TRUE, 1, e)
          \/ ConfQuit(r) \/ DispRegisterConf(r)
          \/ \E ans \in ScanAnswers, idx \in 0..1 : ConfScanStep(r, ans, idx)
    \/ \E currentHeight \in Heights : ConfDetailsManually(1, currentHeight)
    \/ \E ans \in ManualAnswers, matches \in (SUBSET (0..1)) \ {{}} :
          ManualScanStep(ans, matches)

NextScans == Lifecycle \/ ScansNext
SpecScans == Init /\ [][NextScans]_vars

ManualNext ==
    \/ BackendConnect(1)
    \/ \E heightHint \in Heights, currentHeight \in Heights :
          ConfDetailsManually(heightHint, currentHeight)
    \/ \E ans \in ManualAnswers, matches \in (SUBSET (0..1)) \ {{}} :
          ManualScanStep(ans, matches)

NextManual == Lifecycle \/ ManualNext

\* the two height walks over every range, with a backend that answers
\* every call
WalkNext ==
    \/ BackendConnect(1)
    \/ \E r \in Confs :
          \/ \E s \in Heights, e \in Heights :
                RegisterConfirmationsNtfn(r, TRUE, s, e)
          \/ ConfQuit(r) \/ DispRegisterConf(r)
          \/ \E ans \in {"noMatch", "tx"} : ConfScanStep(r, ans, 0)
    \/ \E heightHint \in Heights, currentHeight \in Heights :
          ConfDetailsManually(heightHint, currentHeight)
    \/ \E ans \in {"noTx", "tx"} : ManualScanStep(ans, {0})
NextWalk == Lifecycle \/ WalkNext
SpecWalk == Init /\ [][NextWalk]_vars
SpecManual == Init /\ [][NextManual]_vars

TxIndexNext ==
    \E ans \in TxIndexAnswers, h \in Heights, v \in Variants, idx \in 0..1 :
        ConfDetailsFromTxIndex(ans, h, v, idx)

NextTxIndex == Lifecycle \/ TxIndexNext
SpecTxIndex == Init /\ [][NextTxIndex]_vars

NextResolver == Lifecycle \/ ResolverNext
SpecResolver == Init /\ [][NextResolver]_vars

NextQueue == ViewNext \/ BlockNext \/ BlockQueueDeliver
SpecQueue == Init /\ [][NextQueue]_vars

NextFilterBlock ==
    \/ ViewNext \/ UpdateNext
    \/ \E v \in Variants, lookup \in HeightLookups, txns \in BlockTxns :
          FilterBlock(v, lookup, txns)
SpecFilterBlock == Init /\ [][NextFilterBlock]_vars

(***************************************************************************)
(* Properties.                                                             *)
(***************************************************************************)
IsPrefix(s, t) == Len(s) <= Len(t) /\ \A i \in 1..Len(s) : s[i] = t[i]
Occurrences(s, e) == Cardinality({i \in 1..Len(s) : s[i] = e})
HeightsOf(s) == [i \in 1..Len(s) |-> s[i][1]]

\* the epochs handed to a subscription that are read or still on their way
Delivered(c) == received[c] \o epochChan[c] \o proxyItem[c] \o epochQueue[c]

\* the dispatcher is not in the middle of c's registration handler
Served(c) == c \in blockEpochClients /\ dispClient # <<c>>

\* C1: once the dispatcher has taken a subscription's cancel message (Cancel
\* is in its drain loop) and is back at its select, with the notifier not
\* shutting down, the subscription's delivery channel is closed, so the
\* drain loop ends without waiting for quit.
C1_CancelClosesChannel ==
    \A c \in Clients :
        (cancelPc[c] = "drain" /\ dispPc = "select" /\ ~QuitClosed)
            => epochClosed[c]

C3_HintCatchUp ==
    \A c \in blockEpochClients :
        (hint[c] # <<>> /\ hint[c][1] < bestBlock[1] /\ ~QuitClosed /\ Served(c))
            => HeightsOf(enqueued[c]) =
                   [i \in 1..(bestBlock[1] - hint[c][1]) |-> hint[c][1] + i]

\* What holds of the catch-up: when computing the missed blocks does not
\* fail, what is enqueued and what the handler still has to notify are
\* together H+1..T, and once the handler has finished the subscription has
\* been handed exactly H+1..T.
CatchUpWithoutFailure ==
    \A c \in blockEpochClients :
        (hint[c] # <<>> /\ hint[c][1] < bestBlock[1] /\ ~QuitClosed)
            => LET want == [i \in 1..(bestBlock[1] - hint[c][1]) |-> hint[c][1] + i]
               IN  /\ (dispClient = <<c>> /\ dispErr = "nil")
                          => HeightsOf(enqueued[c] \o dispPending) = want
                   /\ (Served(c) /\ errorChan[c] = <<"nil">>)
                          => /\ HeightsOf(enqueued[c]) = want
                             /\ cancelPc[c] \in {"none", "send"}
                                    => HeightsOf(Delivered(c)) = want

\* C4: once the dispatcher has taken a block-connected notification and is
\* back at its select, the best block is that block, the tracker has been
\* told its height, and every registered client has been handed its epoch.
C4_ConnectedIsDispatched ==
    (connectedSeen # <<>> /\ dispPc = "select" /\ ~QuitClosed)
        => LET blk == connectedSeen[Len(connectedSeen)]
           IN  /\ bestBlock = blk
               /\ trackerHeight = blk[1]
               /\ \A c \in blockEpochClients :
                      (acceptedAt[c] < Len(connectedSeen) /\ ~cancelClosed[c])
                          => Occurrences(enqueued[c], blk) >= 1

C6_ConnectedExactlyOnce ==
    \A c \in blockEpochClients :
        (dispPc = "select" /\ ~QuitClosed /\ ~cancelClosed[c])
            => \A i \in (acceptedAt[c] + 1)..Len(connectedSeen) :
                   Occurrences(enqueued[c], connectedSeen[i]) = 1

\* C7: Start and Stop of the notifier and of the filtered chain view are
\* idempotent: the dispatcher and the chainFilterer are launched at most
\* once, each quit channel is closed at most once, and a call that is not
\* the first changes nothing but its counter.
C7_StartStopIdempotent ==
    /\ [](dispLaunches <= 1 /\ quitCloses <= 1)
    /\ [](cvLaunches <= 1 /\ cvQuitCloses <= 1)
    /\ [][(started >= 1 /\ started' # started)
             => UNCHANGED <<stopped, startPc, stopPc, stopCur, stopDone,
                            quitCloses, txNotifier, tornDown, liveAtReturn,
                            crashed, bestBlock, trackerHeight, dispVars,
                            backendVars, regVars, pipeVars, cancelVars,
                            confVars, viewVars, spendVars, filterVars>>]_vars
    /\ [][(stopped >= 1 /\ stopped' # stopped)
             => UNCHANGED <<started, startPc, stopPc, stopCur, stopDone,
                            quitCloses, txNotifier, tornDown, liveAtReturn,
                            crashed, bestBlock, trackerHeight, dispVars,
                            backendVars, regVars, pipeVars, cancelVars,
                            confVars, viewVars, spendVars, filterVars>>]_vars
    /\ [][(cvStarted >= 1 /\ cvStarted' # cvStarted)
             => UNCHANGED <<cvStopped, cvStartPc, cvStopPc, cvQuitCloses,
                            cvFilterer, cvLaunches, lifeVars, dispVars>>]_vars
    /\ [][(cvStopped >= 1 /\ cvStopped' # cvStopped)
             => UNCHANGED <<cvStarted, cvStartPc, cvStopPc, cvQuitCloses,
                            cvFilterer, cvLaunches, lifeVars, dispVars>>]_vars

C7_Witness ==
    /\ started = 2 /\ stopped = 2 /\ dispLaunches = 1 /\ quitCloses = 1
    /\ dispPc = "exited" /\ stopPc = "returned"
    /\ cvStarted = 2 /\ cvStopped = 2 /\ cvLaunches = 1 /\ cvQuitCloses = 1
    /\ cvStopPc = "returned"

\* C8: after Stop has returned, every registration in the subscriber map
\* has its cancellation channel and its delivery channel closed; and while
\* Stop is in or past its loop over the subscriber map, the dispatcher
\* goroutine is not running.
C8_StopClosesAfterDispatcherExit ==
    /\ stopPc = "returned"
           => \A c \in blockEpochClients : cancelClosed[c] /\ epochClosed[c]
    /\ stopPc \in {"clients", "returned"} => dispPc \notin {"select", "notify"}

\* C9: when Stop returns (the tracker is torn down just before), no
\* forwarding goroutine of any RegisterBlockEpochNtfn call is still running.
C9_ProxiesExitedAtReturn ==
    stopPc = "returned"
        => \A c \in Clients : <<"proxy", c>> \notin liveAtReturn

\* C10: a historical confirmation dispatch whose resolver completed without
\* error has been reported to the tracker with exactly one UpdateConfDetails
\* call carrying the resolver's result (nil when nothing was found), and no
\* other dispatch has been reported.
C10_ResolverReportsOnce ==
    \A r \in Confs :
        /\ confPc[r] \in {"found", "notfound"} => updateCalls[r] = <<confDetails[r]>>
        /\ confPc[r] = "notfound" => confDetails[r] = <<>>
        /\ confPc[r] \notin {"found", "notfound"} => updateCalls[r] = <<>>

C10_Witness ==
    \E r \in Confs :
        /\ confPc[r] = "notfound"
        /\ confStart[r] = 1 /\ confEnd[r] = 2
        /\ scanHeight[r] = 0
        /\ updateCalls[r] = << <<>> >>

\* C11: once the dispatcher has received a historical spend dispatch and is
\* back at its select (no resolver task is running for it), a result has
\* been reported to the tracker with UpdateSpendDetails.
C11_SpendDispatchReported ==
    \A s \in Spends :
        (spendDispatch[s] = "received" /\ dispPc = "select")
            => spendUpdateCalls[s] # <<>>

\* C12: a confirmation or spend registration whose call has got past its
\* registration step (and every one that returned its event) is registered
\* with the tracker.
C12_HandedToTracker ==
    /\ \A r \in Confs :
           confPc[r] \in {"tip", "send", "scan", "found", "notfound", "error"}
               => <<"conf", r>> \in trackerReqs
    /\ \A s \in Spends :
           spendPc[s] = "ok" => <<"spend", s>> \in trackerReqs

\* C13: a registration call made when b.quit is already closed does not
\* return success.
C13_TeardownCallsFail ==
    /\ \A s \in Spends :
           <<"spend", s>> \in teardownCalls => spendPc[s] # "ok"
    /\ \A r \in Confs :
           <<"conf", r>> \in teardownCalls
               => confPc[r] \notin {"tip", "scan", "found", "notfound", "error"}

\* C14: when the dispatcher's handler of a block-epoch registration has
\* failed (an error was sent on the registration's errorChan), the
\* RegisterBlockEpochNtfn call has returned an error.
C14_CatchUpErrorReachesCaller ==
    \A c \in Clients :
        (\E i \in 1..Len(errorChan[c]) : errorChan[c][i] = "err")
            => regPc[c] = "err"

\* the outpoints spent by the connected blocks enqueued after the first n
\* block events
SpentAfter(n) ==
    UNION {PrevOuts(blockQueue[j][4]) : j \in (n + 1)..Len(blockQueue)}

\* The watched-output set is empty in every reachable state: nothing ever
\* inserts an entry.
FilterStaysEmpty == chainFilter = {}

\* C15: an update never shrinks the watched-output set, and an entry leaves
\* the set only in a step that processes a connected block spending it.
C15_UpdateFilterMonotonic ==
    [][/\ cvUpdates' # cvUpdates => chainFilter \subseteq chainFilter'
       /\ chainFilter \ chainFilter' # {}
              => /\ Len(cvBlocks') = Len(cvBlocks) + 1
                 /\ cvBlocks'[Len(cvBlocks')][1] = "connected"
                 /\ (chainFilter \ chainFilter')
                        \subseteq PrevOuts(cvBlocks'[Len(cvBlocks')][4])]_vars

C15_Witness ==
    /\ Len(cvUpdates) = 2
    /\ cvUpdates[1][1] = {1} /\ cvUpdates[2][1] = {}
    /\ cvUpdates[1][4] = 0 /\ cvUpdates[2][4] = 1
    /\ blockQueue[1][1] = "connected" /\ 1 \in PrevOuts(blockQueue[1][4])

\* C16: every outpoint of an update the chainFilterer has processed is in the
\* watched-output set, unless a block connected since then spent it.
C16_UpdateInserts ==
    \A i \in 1..Len(cvUpdates) :
        (cvUpdates[i][1] \ SpentAfter(cvUpdates[i][4])) \subseteq chainFilter

\* C17: once the chainFilterer has processed an update whose height is below
\* the tip height of that moment, every block above the update height up to
\* that tip has been walked again: a connected event for its height has
\* been enqueued after the update.
C17_RewindOnLowerHeight ==
    \A i \in 1..Len(cvUpdates) :
        LET u == cvUpdates[i]
        IN  u[2] < u[3]
                => \A k \in (u[2] + 1)..u[3] :
                       \E j \in (u[4] + 1)..Len(blockQueue) :
                           blockQueue[j][1] = "connected" /\ blockQueue[j][3] = k

\* C18: every connected block handed to onFilteredBlockConnected has exactly
\* one event in the queue, in its place, tagged connected and carrying the
\* block's hash, its height and all its transactions in block order; and
\* the step that processes it removes from the watched-output set exactly
\* the entries spent by an input of the block.
C18_ConnectedBlockFiltered ==
    /\ [](/\ Len(blockQueue) = Len(cvBlocks)
          /\ \A i \in 1..Len(cvBlocks) :
                 cvBlocks[i][1] = "connected"
                     => blockQueue[i] = <<"connected", cvBlocks[i][2],
                                          cvBlocks[i][3], cvBlocks[i][4]>>)
    /\ [][(cvBlocks' # cvBlocks /\ cvBlocks'[Len(cvBlocks')][1] = "connected")
              => chainFilter' = {o \in chainFilter :
                                    o \notin PrevOuts(cvBlocks'[Len(cvBlocks')][4])}]_vars

C18_Witness ==
    /\ cvHeight = 2
    /\ blockQueue = << <<"connected", 1, 1, <<>>>>,
                       <<"connected", 2, 2, << <<1, 2>>, <<1>> >> >> >>

\* C19: every disconnected block handed to onFilteredBlockDisconnected has
\* one event in the queue, in its place, tagged disconnected, with the
\* block's hash and height and no transactions; and the step that
\* processes it enqueues exactly that one event and leaves the
\* watched-output set as it was.
C19_DisconnectedBlockEmpty ==
    /\ [](\A i \in 1..Len(cvBlocks) :
              cvBlocks[i][1] = "disconnected"
                  => /\ i <= Len(blockQueue)
                     /\ blockQueue[i] = <<"disconnected", cvBlocks[i][2],
                                          cvBlocks[i][3], <<>>>>)
    /\ [][(cvBlocks' # cvBlocks /\ cvBlocks'[Len(cvBlocks')][1] = "disconnected")
              => /\ chainFilter' = chainFilter
                 /\ Len(blockQueue') = Len(blockQueue) + 1]_vars

C19_Witness ==
    /\ cvHeight = 0
    /\ blockQueue = << <<"connected", 1, 1, << <<1>> >> >>,
                       <<"disconnected", 2, 1, <<>>>> >>

\* C20: a FilterBlock call made with an empty watched-output set has asked
\* the backend for the block's height and nothing else; when the lookup
\* failed it returned the error and no block, otherwise the block with the
\* given hash, the height found and no transactions.
C20_FilterBlockEmptyFilter ==
    chainFilter = {}
        => \A i \in 1..Len(fbCalls) :
               LET call == fbCalls[i]
               IN  /\ call[3] = <<"GetBlockHeight">>
                   /\ call[2] = <<>> => call[4] = <<"err">>
                   /\ call[2] # <<>> => call[4] = <<"ok", call[1], call[2][1], <<>>>>

C20_Witness ==
    /\ chainFilter = {}
    /\ cvUpdates # <<>>
    /\ \E i \in 1..Len(fbCalls) :
           fbCalls[i] = <<2, <<>>, <<"GetBlockHeight">>, <<"err">>>>

\* the transactions of txns that spend an outpoint of the set ops
Spending(txns, ops) ==
    SelectSeq(txns, LAMBDA t : \E j \in 1..Len(t) : t[j] \in ops)

\* C21: a FilterBlock call whose height lookup succeeded has returned the
\* block with the given hash and exactly those of its transactions that
\* spend an outpoint registered with UpdateFilter before the call.
C21_FilterBlockAppliesWatchedSet ==
    \A i \in 1..Len(fbCalls) :
        fbCalls[i][2] # <<>>
            => fbCalls[i][4] = <<"ok", fbCalls[i][1], fbCalls[i][2][1],
                                 Spending(fbBlocks[i][1], fbBlocks[i][2])>>

\* the events handed to blockQueue.Add, as the consumer would read them
Added == [i \in 1..Len(blockQueue) |->
             <<BlockQueueChan(blockQueue[i]), EventBlock(blockQueue[i])>>]

Visited(r) == [k \in 1..Len(scanLog[r]) |-> scanLog[r][k][1]]

\* the backend calls the resolver of request r has made
CallsMade(r) ==
    UNION {{scanLog[r][k][3][j] : j \in 1..Len(scanLog[r][k][3])} :
              k \in 1..Len(scanLog[r])}

\* C23: when the filter of the block at a height c matched and the block
\* fetched for it held the requested transaction at index i, the resolver
\* has returned {hash of the block at c, c, i}, c lies between startHeight
\* and endHeight, the result was handed to the tracker, and no full block
\* was fetched (GetBlock); and a resolver that returned "not found" has
\* visited every height from endHeight down to startHeight (above 0) and
\* was shown the transaction at none of them.
C23_FoundByFilterScan ==
    \A r \in Confs :
        /\ \A k \in 1..Len(scanLog[r]) :
               scanLog[r][k][2] = "tx"
                   => LET c == scanLog[r][k][1]
                          i == scanLog[r][k][4][1]
                      IN  /\ confStart[r] <= c /\ c <= confEnd[r]
                          /\ confPc[r] = "found"
                          /\ confDetails[r] = <<c, HashAt(c), i>>
                          /\ updateCalls[r] = <<confDetails[r]>>
                          /\ "GetBlock" \notin CallsMade(r)
        /\ confPc[r] = "notfound"
               => /\ {Visited(r)[k] : k \in 1..Len(scanLog[r])}
                        = {h \in 1..MaxHeight : confStart[r] <= h /\ h <= confEnd[r]}
                  /\ \A k \in 1..Len(scanLog[r]) : scanLog[r][k][2] # "tx"

C23_Witness ==
    \E r \in Confs :
        /\ confPc[r] = "found"
        /\ confStart[r] = 1 /\ confEnd[r] = 3
        /\ confDetails[r] = <<2, HashAt(2), 1>>
        /\ Len(scanLog[r]) = 2

\* C24: once the dispatcher has taken a subscription's cancel message and
\* is back at its select, with the notifier not shutting down, the
\* subscription has been torn down: its cancellation signal is closed, its
\* forwarding goroutine has exited, its delivery channel is closed, and it
\* is no longer among the clients of the fan-out.
C24_CancelTeardownDone ==
    \A c \in Clients :
        (cancelPc[c] = "drain" /\ dispPc = "select" /\ ~QuitClosed)
            => /\ cancelClosed[c]
               /\ proxyPc[c] = "exited"
               /\ epochClosed[c]
               /\ c \notin blockEpochClients

\* C25: a height whose filter matched while no transaction of the fetched
\* block matched the request is the last height the resolver visited, and
\* the resolver has ended with an error: it has neither gone on to a lower
\* height nor returned "not found".
C25_MatchWithoutTxIsError ==
    \A r \in Confs :
        \A k \in 1..Len(scanLog[r]) :
            scanLog[r][k][2] = "noTx"
                => /\ k = Len(scanLog[r])
                   /\ confPc[r] = "error"
                   /\ confErr[r] # ""

\* C26: a resolver task that ended because a backend call failed has made
\* no backend call after the failing one, and the tracker has been told
\* about the task's end exactly once.
C26_IoFailureReportedOnce ==
    \A r \in Confs :
        (confPc[r] = "error" /\ confErr[r] = "io")
            => /\ scanLog[r][Len(scanLog[r])][2] \in ScanErrors
               /\ \A k \in 1..(Len(scanLog[r]) - 1) : scanLog[r][k][2] \notin ScanErrors
               /\ Len(updateCalls[r]) = 1

\* C27: before "not found" was reported for a dispatch, its resolver task
\* has gone on from the filter-match scan to a fallback: it has queried the
\* transaction index (GetRawTransactionVerbose) or fetched full blocks for
\* the manual scan (GetBlock).
C27_FallbackBeforeNotFound ==
    \A r \in Confs :
        confPc[r] = "notfound"
            => CallsMade(r) \cap {"GetRawTransactionVerbose", "GetBlock"} # {}

\* whether entry k of the log of request r fetched the block's transactions
Fetched(r, k) ==
    \E j \in 1..Len(scanLog[r][k][3]) : scanLog[r][k][3][j] = "GetFilterBlock"

C29_ScansStopOnQuit ==
    [][/\ \A r \in Confs :
              (/\ QuitClosed /\ confPc[r] = "scan" /\ ScanContinues(r)
               /\ <<confPc[r], scanHeight[r], scanLog[r]>>'
                      # <<confPc[r], scanHeight[r], scanLog[r]>>)
                  => /\ confPc'[r] = "error"
                     /\ confErr'[r] = "shuttingDown"
                     /\ confDetails'[r] = <<>>
                     /\ scanLog'[r] = scanLog[r]
                     /\ updateCalls'[r] = updateCalls[r]
       /\ (/\ QuitClosed /\ manPc = "scan" /\ ManualContinues
           /\ <<manPc, manHeight, manLog>>' # <<manPc, manHeight, manLog>>)
              => /\ manPc' = "done"
                 /\ manResult' = <<<<>>, "TxNotFoundManually", "shuttingDown">>
                 /\ manLog' = manLog]_vars

C29_Witness ==
    /\ QuitClosed
    /\ \E r \in Confs :
           /\ confPc[r] = "error" /\ confErr[r] = "shuttingDown"
           /\ Len(scanLog[r]) = 1 /\ scanHeight[r] = 2
    /\ manPc = "done"
    /\ manResult = <<<<>>, "TxNotFoundManually", "shuttingDown">>
    /\ Len(manLog) = 1 /\ manHeight = 1

\* C30: every confDetailsFromTxIndex call has returned, by what the backend
\* answered: (nil, TxNotFoundIndex, nil) for a transaction the backend
\* does not know; (nil, TxFoundMempool, nil) for one found with an empty
\* confirming block hash; (details, TxFoundIndex, nil), the details being
\* the block's hash and height and the txid's index in its listing, for
\* one found in a block; and an error with nil details when the block's
\* listing lacks the txid.  No other answer gives a nil error.
C30_TxIndexOutcomes ==
    \A k \in 1..Len(txIndexCalls) :
        LET ans == txIndexCalls[k][1][1]
            h == txIndexCalls[k][1][2]
            v == txIndexCalls[k][1][3]
            idx == txIndexCalls[k][1][4]
            res == txIndexCalls[k][2]
        IN  /\ ans = "noTxInfo" => res = <<<<>>, "TxNotFoundIndex", "nil">>
            /\ ans = "mempool" => res = <<<<>>, "TxFoundMempool", "nil">>
            /\ ans = "listed" => res = <<<<h, v, idx>>, "TxFoundIndex", "nil">>
            /\ ans = "notListed" => res[1] = <<>> /\ res[3] # "nil"
            /\ ans \notin {"noTxInfo", "mempool", "listed"} => res[3] # "nil"

C30_Witness ==
    \E k \in 1..Len(txIndexCalls) :
        /\ txIndexCalls[k][1][1] = "mempool"
        /\ txIndexCalls[k][2] = <<<<>>, "TxFoundMempool", "nil">>

\* C31: the heights a manual scan has visited are currentHeight,
\* currentHeight-1, ..., none below heightHint or at 0, each but the last
\* with a block of which no transaction matched.  A scan that was shown
\* matching transactions has returned the lowest-indexed of them, with the
\* block's hash and height and the status TxFoundManually; a scan that
\* returned (nil, TxNotFoundManually, nil) has visited every height of the
\* range and was shown a match at none; a scan whose GetBlockHash or
\* GetBlock failed has returned an error with nil details.
C31_ManualScanFirstMatch ==
    /\ \A k \in 1..Len(manLog) :
           /\ manLog[k][1] = manCur - (k - 1)
           /\ manLog[k][1] >= manHint /\ manLog[k][1] > 0
           /\ k < Len(manLog) => manLog[k][2] = "noTx"
    /\ (manLog # <<>> /\ manLog[Len(manLog)][2] = "tx")
           => LET last == manLog[Len(manLog)]
              IN  /\ manPc = "done"
                  /\ manResult[2] = "TxFoundManually" /\ manResult[3] = "nil"
                  /\ manResult[1][1] = last[1]
                  /\ manResult[1][2] = HashAt(last[1])
                  /\ manResult[1][3] \in last[4]
                  /\ \A j \in last[4] : manResult[1][3] <= j
    /\ (manPc = "done" /\ manResult = <<<<>>, "TxNotFoundManually", "nil">>)
           => /\ \A k \in 1..Len(manLog) : manLog[k][2] = "noTx"
              /\ {manLog[k][1] : k \in 1..Len(manLog)}
                    = {h \in 1..MaxHeight : manHint <= h /\ h <= manCur}
    /\ (manLog # <<>> /\ manLog[Len(manLog)][2] \in {"hashErr", "blockErr"})
           => /\ manPc = "done"
              /\ manResult[1] = <<>> /\ manResult[3] = "io"

C31_Witness ==
    /\ manPc = "done"
    /\ Len(manLog) = 2
    /\ manLog[1][2] = "noTx"
    /\ manLog[2][4] = {0, 1}
    /\ manResult = <<<<1, HashAt(1), 0>>, "TxFoundManually", "nil">>

\* C32: while the dispatcher is in the handler of a registration, its next
\* step (enqueueing the next epoch for the client, or finishing the
\* handler) can be taken, whatever the client's delivery channel holds and
\* whether or not the client reads it.
C32_FanOutNeverBlocked ==
    \A c \in Clients :
        (~crashed /\ dispPc = "notify" /\ dispClient = <<c>>)
            => ENABLED (DispNotify(c) \/ DispFinishReg(c))

C32_Witness ==
    \E c \in Clients :
        /\ ~crashed /\ dispPc = "notify" /\ dispClient = <<c>>
        /\ dispPending # <<>>
        /\ Len(epochChan[c]) = EpochChanCap
        /\ received[c] = <<>>
        /\ ~cancelClosed[c] /\ ~QuitClosed

\* C33: the dispatcher goroutine waits only in its select: whenever it is
\* outside the select (inside a handler), it has a next step of its own,
\* so no backend call that fails to return holds it.
C33_DispatcherNeverStalled ==
    (~crashed /\ dispPc \notin {"none", "select", "exited"})
        => ENABLED (\E c \in Clients : DispNotify(c) \/ DispFinishReg(c))

\* C34: every read or write of the best-tip state is made while its lock,
\* bestBlockMtx, is held.
C34_BestBlockUnderLock == \A a \in mtxLog : a[3]

\* C35: no identifier is handed out twice: two identifiers of one kind
\* taken at different times differ, whatever the order in which the calls
\* of the three kinds took theirs.
C35_IdsNeverReused ==
    \A i, j \in DOMAIN issued :
        (i # j /\ issued[i][1] = issued[j][1]) => issued[i][2] # issued[j][2]

C35_Witness ==
    /\ Len(issued) = 3 * MaxIds
    /\ issued[1][1] # issued[2][1]
    /\ \A kind \in {"epochID", "confID", "spendID"} : Taken(kind) = MaxIds

\* C36: UpdateFilter returns nil only when chainFilterer, launched by Start,
\* has taken the update; once Stop has returned, a call takes its quit case
\* (it can always return, and returns "chain filter shutting down") and no
\* update is taken any more.
C36_UpdateFilterReturns ==
    /\ [][/\ (cvUpdates' # cvUpdates)
                => (cvLaunches > 0 /\ cvFilterer = "running"
                    /\ cvUpdateRet' = "nil")
          /\ (cvUpdateRet' # cvUpdateRet /\ cvUpdateRet' = "nil")
                => cvUpdates' # cvUpdates
          /\ (cvStopPc = "returned")
                => /\ cvUpdates' = cvUpdates
                   /\ (cvUpdateRet' # cvUpdateRet)
                         => cvUpdateRet' = "chain filter shutting down"]_vars
    /\ []((cvStopPc = "returned" /\ ~crashed)
            => /\ ENABLED UpdateFilterQuit
               /\ ~ENABLED (\E ops \in SUBSET Outpoints, h \in Heights :
                               UpdateFilter(ops, h)))

C36_Witness ==
    /\ cvStopPc = "returned"
    /\ cvUpdates # <<>>
    /\ cvUpdateRet = "chain filter shutting down"

Before(effects, a, b) ==
    \E i, j \in DOMAIN effects : i < j /\ effects[i] = a /\ effects[j] = b

\* C37: a handleBlockConnected call whose GetBlock or ConnectTip fails leaves
\* the best tip unchanged, enqueues no epoch and does not call NotifyHeight;
\* a call in which both succeed sets the best tip to the block before the
\* fan-out, and the fan-out comes before NotifyHeight.
C37_BlockConnectedAllOrNothing ==
    [][(hbcCalls' # hbcCalls) =>
         LET call == hbcCalls'[Len(hbcCalls')] IN
         IF call[2] \in {"getBlockErr", "connectTipErr"}
         THEN /\ bestBlock' = bestBlock
              /\ enqueued' = enqueued /\ epochQueue' = epochQueue
              /\ ~Has(call[3], "NotifyHeight")
         ELSE /\ bestBlock' = call[1]
              /\ \A c \in blockEpochClients :
                    (~cancelClosed[c] /\ ~QuitClosed)
                        => enqueued'[c] = Append(enqueued[c], call[1])
              /\ Before(call[3], "bestBlock", "notifyBlockEpochs")
              /\ Before(call[3], "notifyBlockEpochs", "NotifyHeight")]_vars

C37_Witness ==
    /\ Len(hbcCalls) = 2
    /\ hbcCalls[1][2] = "connectTipErr" /\ hbcCalls[1][1] # Epoch(1)
    /\ hbcCalls[2][2] = "ok"
    /\ bestBlock = hbcCalls[2][1]
    /\ \E c \in blockEpochClients :
          Len(enqueued[c]) = 2 /\ enqueued[c][2] = hbcCalls[2][1]

\* C38: in every interleaving of registrations, Cancel calls and Stop, a
\* delivery channel is closed only once its forwarding goroutine has
\* exited, no send is made on a closed delivery channel, and neither of a
\* registration's channels is closed a second time.
C38_ChannelsClosedSafely ==
    /\ [](\A c \in Clients :
            (epochClosed[c] /\ ~crashed) => proxyPc[c] = "exited")
    /\ [][\A c \in Clients :
            /\ (epochClosed'[c] /\ ~epochClosed[c]) => proxyPc[c] = "exited"
            /\ (proxyPc[c] = "hold" /\ proxyPc'[c] = "idle") => ~epochClosed[c]
            /\ (stopCur = <<>> /\ stopCur' = <<c>>) => ~cancelClosed[c]
            /\ (stopCur = <<c>> /\ stopCur' = <<>>) => ~epochClosed[c]]_vars

C38_Witness ==
    \E c \in Clients :
        /\ stopPc = "returned" /\ ~crashed
        /\ epochClosed[c] /\ cancelClosed[c]
        /\ cancelPc[c] # "none"
        /\ Len(epochChan[c]) + Len(received[c]) > 0

\* C39: whenever a Start call has returned nil (the first call after its
\* initialisation, or any later call) and Stop has not been called, the
\* dispatcher goroutine is running, the tracker exists and the best tip has
\* been set; also when the returning call follows a first call that failed.
C39_StartedMeansRunning ==
    ((startPc = "done" \/ started >= 2) /\ stopped = 0 /\ ~crashed)
        => /\ dispPc \in {"select", "notify", "rpc"}
           /\ txNotifier
           /\ BestBlockAccess("Start", "write", FALSE) \in mtxLog

\* C40: the height walks of historicalConfDetails and confDetailsManually
\* end for every range: the heights inspected go down by one from the upper
\* end, stay above 0 and at or above the lower end, so at most as many as
\* the upper end; the counter never passes below 0 to a larger value; and a
\* range whose upper end is below its lower end (or is 0) inspects nothing
\* and gives "not found" without an error.
C40_HeightWalksEnd ==
    /\ \A r \in Confs :
          /\ \A k \in 1..Len(scanLog[r]) :
                /\ scanLog[r][k][1] = confEnd[r] - (k - 1)
                /\ scanLog[r][k][1] > 0
                /\ scanLog[r][k][1] >= confStart[r]
          /\ Len(scanLog[r]) <= confEnd[r]
          /\ confPc[r] \in {"scan", "found", "notfound", "error"}
                => scanHeight[r] <= confEnd[r]
          /\ (confPc[r] \in {"found", "notfound", "error"}
                /\ (confEnd[r] < confStart[r] \/ confEnd[r] = 0))
                => /\ scanLog[r] = <<>>
                   /\ confPc[r] = "notfound" /\ confErr[r] = ""
    /\ \A k \in 1..Len(manLog) :
          /\ manLog[k][1] = manCur - (k - 1)
          /\ manLog[k][1] > 0
          /\ manLog[k][1] >= manHint
    /\ Len(manLog) <= manCur
    /\ manHeight <= manCur
    /\ (manPc = "done" /\ (manCur < manHint \/ manCur = 0))
          => /\ manLog = <<>>
             /\ manResult = <<<<>>, "TxNotFoundManually", "nil">>

C40_Witness ==
    /\ \E r \in Confs :
          /\ confStart[r] = 0 /\ confEnd[r] = 2
          /\ Len(scanLog[r]) = 2 /\ scanHeight[r] = 0
          /\ confPc[r] = "notfound"
    /\ manHint = 0 /\ manCur = 2
    /\ Len(manLog) = 2 /\ manHeight = 0
    /\ manPc = "done" /\ manResult = <<<<>>, "TxNotFoundManually", "nil">>

=============================================================================
